---- MODULE Spec2Model ----
(***************************************************************************)
(* Model of the flux gateway core: the endpoint registry and multi-version *)
(* route table fed by discovery events (server/server.go), and the request *)
(* dispatcher with its filter chain and terminal transport step            *)
(* (server/dispatcher.go).                                                 *)
(*                                                                         *)
(* Spec        the serve engine: endpoint events interleaved with requests *)
(*             dispatched by the public web server to registered handlers. *)
(* SpecRequest one endpoint request through HandleEndpointRequest / Route  *)
(*             under every filter, selector, cancellation and transporter  *)
(*             configuration within the bounds.                            *)
(* SpecFault   one endpoint request whose hooks, filters, transporter or    *)
(*             writers return errors or panic, with the web server's error *)
(*             handler.                                                    *)
(* SpecService the service directory under service events.                 *)
(* SpecShutdown one Shutdown call under every registration of hooks.       *)
(* SpecLoops   the two discovery event loops, the producer and Shutdown.   *)
(* SpecConcurrent request handlers running while endpoint events are       *)
(*             applied.                                                    *)
(* SpecVersion one request for a route under every version table.          *)
(* SpecBoot    the lifecycle: Initial, StartServe and the first request.   *)
(* SpecDyn     Dispatcher.Init under every dynfilter configuration block.  *)
(* SpecPermission one invocation of the permission filter against a        *)
(*             directory at rest; SpecPermissionConcurrent runs it while   *)
(*             service events are applied.                                 *)
(* SpecCompose two Route calls composing their filter chains at once.      *)
(***************************************************************************)
EXTENDS Integers, Sequences, FiniteSets, TLC

VARIABLES
    endpoints,       \* route key -> MultiEndpoint (package-level route table)
    httpHandlers,    \* route key -> number of httpWebServer.AddWebHandler calls
    manageHandlers,  \* route key -> number of manageWebServer.AddWebHandler calls
    history,         \* route key -> version -> type of the last non-managed event received for it
    nEvents,         \* number of endpoint events handled so far
    request,         \* the request received last
    pending,         \* whether it is still to be handled
    outcome,         \* what handling it returned and the calls it made, in order
    services,        \* id -> backend service (package-level service directory of ext)
    hooks,           \* what Shutdown finds: the shutdown hooks registered, the web servers' replies
    shutdown,        \* the Shutdown call: whether it returned, what, the calls it made, the stopped channel
    channels,        \* the discovery channels of the two event loops, with what was sent and handled
    loops,           \* loop -> "running" or "stopped"
    inflight,        \* handler -> the request it is serving and the endpoint it looked up
    boot,            \* the lifecycle: configuration, what Initial and StartServe did and returned
    perm,            \* the permission filter's invocation in flight: its position and what it called
    compose          \* the filter slices in memory and each handler's position in Route

vars ==
    <<endpoints, httpHandlers, manageHandlers, history, nEvents,
      request, pending, outcome, services, hooks, shutdown, channels, loops, inflight,
      boot, perm, compose>>

\* The state outside the route table and the request in flight.
engineVars ==
    <<services, hooks, shutdown, channels, loops, inflight, boot, perm, compose>>

registryVars == <<endpoints, httpHandlers, manageHandlers, history, nEvents>>

-----------------------------------------------------------------------------
(* Bounds                                                                  *)

MaxEvents == 3
MaxGlobal == 2
MaxSelectors == 1

-----------------------------------------------------------------------------
(* Values                                                                  *)

EventTypeAdded == "Added"
EventTypeUpdated == "Updated"
EventTypeRemoved == "Removed"
EventTypes == {EventTypeAdded, EventTypeUpdated, EventTypeRemoved}

\* HttpMethod values as discovery delivers them (any letter case).
HttpMethods == {"GET", "post", "CONNECT"}
HttpPatterns == {"/a"}
Versions == {"", "v1", "v2"}
\* Versions the discovery events of a run carry.
EventVersions == {"", "v1"}
RpcProtos == {"http", "grpc"}

\* strings.ToUpper on the method strings above.
ToUpper(s) ==
    CASE s = "get" -> "GET"
      [] s = "post" -> "POST"
      [] s = "connect" -> "CONNECT"
      [] OTHER -> s

Endpoints ==
    [Version : EventVersions, HttpMethod : HttpMethods, HttpPattern : HttpPatterns,
     RpcProto : RpcProtos, Managed : BOOLEAN]

\* The endpoint of a request that was bound to none.
NoEndpoint ==
    [Version |-> "", HttpMethod |-> "", HttpPattern |-> "", RpcProto |-> "", Managed |-> FALSE]

\* The events discovery delivers in a run. Version and RpcProto vary on the
\* events that reach the multi-version table; the others carry one value.
EndpointEvents ==
    {ev \in [EventType : EventTypes, Endpoint : Endpoints] :
        (ev.Endpoint.Managed \/ ev.Endpoint.HttpMethod = "CONNECT")
            => (ev.Endpoint.Version = "v1" /\ ev.Endpoint.RpcProto = "http")}

RouteKeys == {<<ToUpper(m), p>> : m \in HttpMethods, p \in HttpPatterns}

StatusOK == 200
StatusNotFound == 404
StatusForbidden == 403
StatusServerError == 500

ErrorCodeRequestNotFound == "REQUEST_NOT_FOUND"
ErrorCodeCanceled == "ROUTE:TRANSPORT/B:CANCELED"

\* A nil *flux.ServeError.
NilError == [StatusCode |-> 0, ErrorCode |-> "", Message |-> "", CauseError |-> ""]

ErrRouteNotFound ==
    [StatusCode |-> StatusNotFound, ErrorCode |-> ErrorCodeRequestNotFound,
     Message |-> "ROUTE:NOT_FOUND", CauseError |-> ""]

\* One observable call made while a request is handled.
Call(op, arg) == [op |-> op, arg |-> arg]

-----------------------------------------------------------------------------
(* Multi-version endpoint table                                            *)

\* Rank of a version string in lexicographic order.
VersionRank(v) == CASE v = "" -> 0 [] v = "v1" -> 1 [] v = "v2" -> 2 [] OTHER -> 3

NewMultiEndpoint(endpoint) == [v \in {endpoint.Version} |-> endpoint]

\* Update that writes the new endpoint's attributes over the stored entry one
\* at a time and is observed before the last one.
Update_FieldWise(mve, version, endpoint) ==
    [v \in DOMAIN mve \cup {version} |->
        IF v = version
        THEN IF version \in DOMAIN mve
             THEN [endpoint EXCEPT !.RpcProto = mve[version].RpcProto]
             ELSE endpoint
        ELSE mve[v]]

Update(mve, version, endpoint) ==
    [v \in DOMAIN mve \cup {version} |-> IF v = version THEN endpoint ELSE mve[v]]

Delete(mve, version) == [v \in DOMAIN mve \ {version} |-> mve[v]]

\* The default version of a non-empty table: "" when stored, else the smallest.
DefaultVersion(mve) ==
    IF "" \in DOMAIN mve THEN ""
    ELSE CHOOSE v \in DOMAIN mve : \A w \in DOMAIN mve : VersionRank(v) <= VersionRank(w)

\* FindByVersion without a default version.
FindByVersion_ExactOnly(mve, version) ==
    IF version \in DOMAIN mve
    THEN [found |-> TRUE, version |-> version]
    ELSE [found |-> FALSE, version |-> ""]

FindByVersion(mve, version) ==
    IF version # "" /\ version \in DOMAIN mve
    THEN [found |-> TRUE, version |-> version]
    ELSE IF DOMAIN mve # {}
         THEN [found |-> TRUE, version |-> DefaultVersion(mve)]
         ELSE [found |-> FALSE, version |-> ""]

SelectMultiEndpoint(table, routeKey) == routeKey \in DOMAIN table

RegisterMultiEndpoint(table, routeKey, endpoint) ==
    [k \in DOMAIN table \cup {routeKey} |->
        IF k = routeKey THEN NewMultiEndpoint(endpoint) ELSE table[k]]

-----------------------------------------------------------------------------
(* Endpoint events                                                         *)

\* isAllowedHttpMethod with CONNECT let through.
isAllowedHttpMethod_Connect(method) ==
    method \in {"GET", "POST", "DELETE", "PUT", "HEAD", "OPTIONS", "PATCH", "TRACE", "CONNECT"}

isAllowedHttpMethod(method) ==
    method \in {"GET", "POST", "DELETE", "PUT", "HEAD", "OPTIONS", "PATCH", "TRACE"}

\* The multi-version endpoint of routeKey, created when the key is unseen.
selectMultiEndpoint(table, routeKey, endpoint) ==
    IF SelectMultiEndpoint(table, routeKey)
    THEN [table |-> table, toRegister |-> FALSE]
    ELSE [table |-> RegisterMultiEndpoint(table, routeKey, endpoint), toRegister |-> TRUE]

registerManageEndpoint(method, pattern, eventType, endpoint) ==
    /\ manageHandlers' =
          IF eventType \in {EventTypeAdded, EventTypeUpdated}
          THEN [manageHandlers EXCEPT ![<<method, pattern>>] = @ + 1]
          ELSE manageHandlers
    /\ UNCHANGED <<endpoints, httpHandlers>>

\* registerServeEndpoint whose Removed case leaves the version in place.
registerServeEndpoint_NoDelete(routeKey, method, pattern, eventType, endpoint) ==
    LET sel == selectMultiEndpoint(endpoints, routeKey, endpoint)
        multi == sel.table[routeKey]
    IN  /\ endpoints' =
              IF eventType \in {EventTypeAdded, EventTypeUpdated}
              THEN [sel.table EXCEPT ![routeKey] = Update(multi, endpoint.Version, endpoint)]
              ELSE sel.table
        /\ httpHandlers' =
              IF eventType = EventTypeAdded /\ sel.toRegister
              THEN [httpHandlers EXCEPT ![<<method, pattern>>] = @ + 1]
              ELSE httpHandlers
        /\ UNCHANGED manageHandlers

\* registerServeEndpoint whose Removed case drops every version of the route.
registerServeEndpoint_RemoveAll(routeKey, method, pattern, eventType, endpoint) ==
    LET sel == selectMultiEndpoint(endpoints, routeKey, endpoint)
        multi == sel.table[routeKey]
    IN  /\ endpoints' =
              IF eventType \in {EventTypeAdded, EventTypeUpdated}
              THEN [sel.table EXCEPT ![routeKey] = Update(multi, endpoint.Version, endpoint)]
              ELSE [sel.table EXCEPT ![routeKey] = << >>]
        /\ httpHandlers' =
              IF eventType = EventTypeAdded /\ sel.toRegister
              THEN [httpHandlers EXCEPT ![<<method, pattern>>] = @ + 1]
              ELSE httpHandlers
        /\ UNCHANGED manageHandlers

\* registerServeEndpoint that binds a handler on every Added event.
registerServeEndpoint_Rebind(routeKey, method, pattern, eventType, endpoint) ==
    LET sel == selectMultiEndpoint(endpoints, routeKey, endpoint)
        multi == sel.table[routeKey]
    IN  /\ endpoints' =
              IF eventType \in {EventTypeAdded, EventTypeUpdated}
              THEN [sel.table EXCEPT ![routeKey] = Update(multi, endpoint.Version, endpoint)]
              ELSE [sel.table EXCEPT ![routeKey] = Delete(multi, endpoint.Version)]
        /\ httpHandlers' =
              IF eventType = EventTypeAdded
              THEN [httpHandlers EXCEPT ![<<method, pattern>>] = @ + 1]
              ELSE httpHandlers
        /\ UNCHANGED manageHandlers

registerServeEndpoint(routeKey, method, pattern, eventType, endpoint) ==
    LET sel == selectMultiEndpoint(endpoints, routeKey, endpoint)
        multi == sel.table[routeKey]
    IN  /\ endpoints' =
              IF eventType \in {EventTypeAdded, EventTypeUpdated}
              THEN [sel.table EXCEPT ![routeKey] = Update(multi, endpoint.Version, endpoint)]
              ELSE [sel.table EXCEPT ![routeKey] = Delete(multi, endpoint.Version)]
        /\ httpHandlers' =
              IF eventType = EventTypeAdded /\ sel.toRegister
              THEN [httpHandlers EXCEPT ![<<method, pattern>>] = @ + 1]
              ELSE httpHandlers
        /\ UNCHANGED manageHandlers

\* The bookkeeping of the events handled so far: not program state.
RecordEvent(ev) ==
    LET method == ToUpper(ev.Endpoint.HttpMethod)
        routeKey == <<method, ev.Endpoint.HttpPattern>>
    IN  /\ nEvents' = nEvents + 1
        /\ history' =
              IF ~ev.Endpoint.Managed
              THEN [history EXCEPT ![routeKey][ev.Endpoint.Version] = ev.EventType]
              ELSE history

HandleHttpEndpointEvent(ev) ==
    LET method == ToUpper(ev.Endpoint.HttpMethod)
        pattern == ev.Endpoint.HttpPattern
        endpoint == ev.Endpoint
    IN  IF ~isAllowedHttpMethod(method)
        THEN UNCHANGED <<endpoints, httpHandlers, manageHandlers>>
        ELSE IF endpoint.Managed
             THEN registerManageEndpoint(method, pattern, ev.EventType, endpoint)
             ELSE registerServeEndpoint(<<method, pattern>>, method, pattern, ev.EventType, endpoint)

\* The endpoint event loop takes the next event off the discovery channel.
EndpointEvent ==
    /\ nEvents < MaxEvents
    /\ \E ev \in EndpointEvents :
          /\ HandleHttpEndpointEvent(ev)
          /\ RecordEvent(ev)
    /\ UNCHANGED <<request, pending, outcome, engineVars>>

InitRegistry ==
    /\ endpoints = << >>
    /\ httpHandlers = [k \in RouteKeys |-> 0]
    /\ manageHandlers = [k \in RouteKeys |-> 0]
    /\ history = [k \in RouteKeys |-> [v \in EventVersions |-> "None"]]
    /\ nEvents = 0

-----------------------------------------------------------------------------
(* Service directory                                                       *)

ServiceIds == {"s1", "s2"}
AliasIds == {"", "a1", "a2"}
Interfaces == {"i1", "i2"}

Services == [ServiceId : ServiceIds, AliasId : AliasIds, Interface : Interfaces]

ServiceEvents == [EventType : EventTypes, Service : Services]

\* ext.StoreBackendServiceById: the directory with service stored under id.
StoreBackendServiceById(dir, id, service) ==
    [k \in DOMAIN dir \cup {id} |-> IF k = id THEN service ELSE dir[k]]

\* ext.StoreBackendService: the service stored under its ServiceId.
StoreBackendService(dir, service) == StoreBackendServiceById(dir, service.ServiceId, service)

\* ext.RemoveBackendService: the directory without the entry of id.
RemoveBackendService(dir, id) == [k \in DOMAIN dir \ {id} |-> dir[k]]

HandleBackendServiceEvent(ev) ==
    LET service == ev.Service
        stored == StoreBackendService(services, service)
        removed == RemoveBackendService(services, service.ServiceId)
    IN  services' =
           IF ev.EventType \in {EventTypeAdded, EventTypeUpdated}
           THEN IF service.AliasId # ""
                THEN StoreBackendServiceById(stored, service.AliasId, service)
                ELSE stored
           ELSE IF service.AliasId # ""
                THEN RemoveBackendService(removed, service.AliasId)
                ELSE removed

\* The service event loop takes the next event off the discovery channel.
ServiceEvent ==
    /\ \E ev \in ServiceEvents : HandleBackendServiceEvent(ev)
    /\ UNCHANGED <<registryVars, request, pending, outcome,
                   hooks, shutdown, channels, loops, inflight, boot, perm, compose>>

-----------------------------------------------------------------------------
(* Shutdown                                                                *)

MaxHooks == 2

HookIds == {"h1", "h2", "h3"}
HookOrders == {1, 2}

\* A shutdown hook: its ordering hint and whether its Shutdown returns an error.
ShutdownHooks == [id : HookIds, order : HookOrders, fails : BOOLEAN]

\* The hooks registered, in registration order; no hook is registered twice.
ShutdownHookLists ==
    {s \in UNION {[1..m -> ShutdownHooks] : m \in 0..MaxHooks} :
        \A i, j \in 1..Len(s) : s[i].id = s[j].id => i = j}

\* hook put into the sorted list after the hooks whose hint is not above its own.
InsertHook(sorted, hook) ==
    LET k == Cardinality({i \in 1..Len(sorted) : sorted[i].order <= hook.order})
    IN  SubSeq(sorted, 1, k) \o <<hook>> \o SubSeq(sorted, k + 1, Len(sorted))

\* The hooks in the order of their hints, registration order among equals.
RECURSIVE sortedShutdown(_)
sortedShutdown(list) ==
    IF list = << >> THEN << >>
    ELSE InsertHook(sortedShutdown(SubSeq(list, 1, Len(list) - 1)), list[Len(list)])

\* The loop of Dispatcher.Shutdown from hook i on: it returns at the first error.
RECURSIVE shutdownFrom(_, _)
shutdownFrom(sorted, i) ==
    IF i > Len(sorted) THEN [err |-> "", calls |-> << >>]
    ELSE IF sorted[i].fails
    THEN [err |-> sorted[i].id, calls |-> <<Call("hook.Shutdown", sorted[i].id)>>]
    ELSE LET rest == shutdownFrom(sorted, i + 1)
         IN  [rest EXCEPT !.calls = <<Call("hook.Shutdown", sorted[i].id)>> \o @]

DispatcherShutdown(list) == shutdownFrom(sortedShutdown(list), 1)

\* HttpServeEngine.Shutdown with the stopped channel closed on entry.
EngineShutdown_CloseFirst(h) ==
    LET router == DispatcherShutdown(h.list)
    IN  [ret |-> router.err,
         calls |-> <<Call("close", "stopped"),
                     Call("manageWebServer.Shutdown", ""),
                     Call("httpWebServer.Shutdown", "")>>
                   \o (IF h.httpErr THEN <<Call("Warnw", "")>> ELSE << >>)
                   \o router.calls]

\* HttpServeEngine.Shutdown: what it returns and the calls it makes, the
\* deferred close of the stopped channel last.
EngineShutdown(h) ==
    LET router == DispatcherShutdown(h.list)
    IN  [ret |-> router.err,
         calls |-> <<Call("manageWebServer.Shutdown", ""),
                     Call("httpWebServer.Shutdown", "")>>
                   \o (IF h.httpErr THEN <<Call("Warnw", "")>> ELSE << >>)
                   \o router.calls
                   \o <<Call("close", "stopped")>>]

NoHooks == [list |-> << >>, manageErr |-> FALSE, httpErr |-> FALSE]

NoShutdown == [returned |-> FALSE, stopped |-> FALSE, ret |-> "", calls |-> << >>]

\* Shutdown that also closes the discovery channels and stops the loops.
Shutdown_StopLoops ==
    /\ ~shutdown.returned
    /\ shutdown' = [returned |-> TRUE, stopped |-> TRUE,
                    ret |-> EngineShutdown(hooks).ret, calls |-> EngineShutdown(hooks).calls]
    /\ channels' = [channels EXCEPT !.closed = [l \in DOMAIN @ |-> TRUE]]
    /\ loops' = [l \in DOMAIN loops |-> "stopped"]
    /\ UNCHANGED <<registryVars, request, pending, outcome, services, hooks, inflight, boot, perm, compose>>

Shutdown ==
    /\ ~shutdown.returned
    /\ shutdown' = [returned |-> TRUE, stopped |-> TRUE,
                    ret |-> EngineShutdown(hooks).ret, calls |-> EngineShutdown(hooks).calls]
    /\ UNCHANGED <<registryVars, request, pending, outcome,
                   services, hooks, channels, loops, inflight, boot, perm, compose>>

-----------------------------------------------------------------------------
(* Dispatcher: filter chain and terminal transport step                    *)

FilterIds == {"A", "B", "C"}
FilterKinds == {"pass", "short"}
\* What a filter does with a request: call next, return its error, or panic.
FilterFaults == FilterKinds \cup {"panic"}

\* Protocols with a transporter registered in ext.
Transporters == {"http"}

\* The ServeError a short-circuiting filter returns; Message identifies the filter.
FilterError(f) ==
    [StatusCode |-> StatusForbidden, ErrorCode |-> "PERMISSION_DENIED",
     Message |-> f, CauseError |-> ""]

\* transport without the check of the request's context.
transport_NoCancelCheck(ctx) ==
    LET proto == ctx.endpoint.RpcProto IN
    IF proto \notin Transporters
    THEN [err |-> [StatusCode |-> StatusNotFound, ErrorCode |-> ErrorCodeRequestNotFound,
                   Message |-> "ROUTE:UNKNOWN_PROTOCOL", CauseError |-> ""],
          status |-> 0,
          calls |-> <<Call("AddMetric", "transporter")>>,
          panic |-> FALSE]
    ELSE [err |-> NilError,
          status |-> IF ctx.reply = "ok" THEN StatusOK ELSE StatusServerError,
          calls |-> <<Call("Transport", proto), Call("ObserveDuration", proto),
                      Call("AddMetric", "transporter")>>,
          panic |-> FALSE]

\* transport that goes on to the exchange when the lookup by proto failed.
transport_SkipLookup(ctx) ==
    IF ctx.ctxErr # ""
    THEN [err |-> [StatusCode |-> StatusOK, ErrorCode |-> ErrorCodeCanceled,
                   Message |-> "", CauseError |-> ctx.ctxErr],
          status |-> 0,
          calls |-> << >>,
          panic |-> FALSE]
    ELSE LET proto == ctx.endpoint.RpcProto IN
         [err |-> NilError,
          status |-> IF ctx.reply = "ok" THEN StatusOK ELSE StatusServerError,
          calls |-> <<Call("Transport", proto), Call("ObserveDuration", proto),
                      Call("AddMetric", "transporter")>>,
          panic |-> FALSE]

\* The terminal step of the chain. ctx.ctxErr is ctx.Context().Err() when the
\* step is reached: "" while the request's context is not done. ctx.reply is
\* what the transporter does: "ok" and "error" set the response status,
\* "panic" panics inside Transport (the deferred AddMetric still runs).
transport(ctx) ==
    IF ctx.ctxErr # ""
    THEN [err |-> [StatusCode |-> StatusOK, ErrorCode |-> ErrorCodeCanceled,
                   Message |-> "", CauseError |-> ctx.ctxErr],
          status |-> 0,
          calls |-> << >>,
          panic |-> FALSE]
    ELSE LET proto == ctx.endpoint.RpcProto IN
         IF proto \notin Transporters
         THEN [err |-> [StatusCode |-> StatusNotFound, ErrorCode |-> ErrorCodeRequestNotFound,
                        Message |-> "ROUTE:UNKNOWN_PROTOCOL", CauseError |-> ""],
               status |-> 0,
               calls |-> <<Call("AddMetric", "transporter")>>,
               panic |-> FALSE]
         ELSE IF ctx.reply = "panic"
         THEN [err |-> NilError,
               status |-> 0,
               calls |-> <<Call("Transport", proto), Call("AddMetric", "transporter")>>,
               panic |-> TRUE]
         ELSE [err |-> NilError,
               status |-> IF ctx.reply = "ok" THEN StatusOK ELSE StatusServerError,
               calls |-> <<Call("Transport", proto), Call("ObserveDuration", proto),
                           Call("AddMetric", "transporter")>>,
               panic |-> FALSE]

\* filter.DoFilter(next): the invoker that runs filter around next. An invoker
\* is the list of its filter stages, outermost first, ending in the terminal.
DoFilter(filter, next) == <<filter>> \o next

RECURSIVE walkFrom(_, _, _)
walkFrom(next, filters, i) ==
    IF i < 1 THEN next
    ELSE walkFrom([stages |-> DoFilter(filters[i], next.stages),
                   applied |-> Append(next.applied, filters[i])], filters, i - 1)

RECURSIVE walkUp(_, _, _)
walkUp(next, filters, i) ==
    IF i > Len(filters) THEN next
    ELSE walkUp([stages |-> DoFilter(filters[i], next.stages),
                 applied |-> Append(next.applied, filters[i])], filters, i + 1)

\* walk iterating from the first filter to the last.
walk_Forward(next, filters) == walkUp(next, filters, 1)

RECURSIVE walkAbove(_, _, _)
walkAbove(next, filters, i) ==
    IF i <= 1 THEN next
    ELSE walkAbove([stages |-> DoFilter(filters[i], next.stages),
                    applied |-> Append(next.applied, filters[i])], filters, i - 1)

\* walk whose loop stops before the first filter.
walk_SkipFirst(next, filters) == walkAbove(next, filters, Len(filters))

\* The chain over the terminal invoker next; applied lists the DoFilter calls made.
walk(next, filters) == walkFrom(next, filters, Len(filters))

\* Calling an invoker with ctx.
RECURSIVE invoke(_, _)
invoke(stages, ctx) ==
    IF stages = << >> THEN transport(ctx)
    ELSE LET f == Head(stages) IN
         IF ctx.kind[f] = "short"
         THEN [err |-> FilterError(f), status |-> 0, calls |-> <<Call("filter", f)>>,
               panic |-> FALSE]
         ELSE IF ctx.kind[f] = "panic"
         THEN [err |-> NilError, status |-> 0, calls |-> <<Call("filter", f)>>,
               panic |-> TRUE]
         ELSE LET r == invoke(Tail(stages), ctx)
              IN  [r EXCEPT !.calls = <<Call("filter", f)>> \o @]

\* The filters of the selectors that activate for ctx, in selector order.
RECURSIVE selectFilters(_)
selectFilters(selectors) ==
    IF selectors = << >> THEN << >>
    ELSE (IF Head(selectors).activate THEN Head(selectors).select ELSE << >>)
         \o selectFilters(Tail(selectors))

\* doMetricEndpointFunc that counts an error for every request.
doMetricEndpointFunc_AlwaysError(ctx, err) ==
    <<Call("EndpointAccess", ctx.endpoint.RpcProto),
      [op |-> "EndpointError", arg |-> err.ErrorCode, labels |-> <<ctx.endpoint.RpcProto>>]>>

\* The counters incremented after the chain returned err. The service of the
\* endpoint is its RpcProto; labels holds the service labels of the error counter.
doMetricEndpointFunc(ctx, err) ==
    <<Call("EndpointAccess", ctx.endpoint.RpcProto)>>
    \o (IF err # NilError
        THEN <<[op |-> "EndpointError", arg |-> err.ErrorCode,
                labels |-> <<ctx.endpoint.RpcProto>>]>>
        ELSE << >>)

Route(ctx) ==
    LET selective == selectFilters(ctx.selectors)
        filters == ctx.globals \o selective
        chain == walk([stages |-> << >>, applied |-> << >>], filters)
        r == invoke(chain.stages, ctx)
    IN  [err |-> r.err,
         status |-> r.status,
         calls |-> <<Call("AddMetric", "selector")>>
                   \o [i \in 1..Len(chain.applied) |-> Call("DoFilter", chain.applied[i])]
                   \o r.calls
                   \o (IF r.panic THEN << >> ELSE doMetricEndpointFunc(ctx, r.err))
                   \o <<Call("AddMetric", "route")>>,
         panic |-> r.panic]

-----------------------------------------------------------------------------
(* Request handling                                                        *)

\* An error that is not a *flux.ServeError: what a response writer returns.
WriterError ==
    [StatusCode |-> 0, ErrorCode |-> "", Message |-> "write failed", CauseError |-> ""]

ErrorCodeGatewayInternal == "GATEWAY_INTERNAL"

\* ServeError.MergeHeader(header): the error's Header with header's values added.
MergeHeader(errHeader, header) == errHeader \cup header

\* HandleEndpointRequest without the merge of the response's header values.
HandleEndpointRequest_NoMerge(webc, endpoint) ==
    LET ctxw == [webc EXCEPT !.endpoint = endpoint]
        r == Route(ctxw)
        acquire == <<Call("acquireContext", endpoint.Version)>>
        release == <<Call("releaseContext", "")>>
    IN  IF r.err # NilError
        THEN [ret |-> r.err, endpoint |-> endpoint,
              header |-> IF r.err.ErrorCode = "PERMISSION_DENIED" THEN webc.errHeader ELSE {},
              calls |-> acquire \o <<Call("hook", "")>> \o r.calls \o release]
        ELSE [ret |-> NilError, endpoint |-> endpoint, header |-> {},
              calls |-> acquire \o <<Call("hook", "")>> \o r.calls
                        \o <<Call("responseWriter", ToString(r.status))>> \o release]

\* HandleEndpointRequest that puts the context back before it routes, and
\* again when it returns.
HandleEndpointRequest_EarlyRelease(webc, endpoint) ==
    LET ctxw == [webc EXCEPT !.endpoint = endpoint]
        r == Route(ctxw)
        acquire == <<Call("acquireContext", endpoint.Version)>>
        release == <<Call("releaseContext", "")>>
    IN  [ret |-> r.err, endpoint |-> endpoint, header |-> {},
         calls |-> acquire \o release \o r.calls \o release]

\* One request through the engine. webc.hook, webc.writer say what the context
\* hooks and the response writer do with it ("ok", "error", "panic"). A panic
\* unwinds through the deferred releaseContext to the deferred recover, after
\* which the function returns the zero value of its unnamed result: nil.
HandleEndpointRequest(webc, endpoint) ==
    LET ctxw == [webc EXCEPT !.endpoint = endpoint]
        r == Route(ctxw)
        acquire == <<Call("acquireContext", endpoint.Version)>>
        release == <<Call("releaseContext", "")>>
        recovered == <<Call("recover", "")>>
    IN  IF webc.hook = "panic"
        THEN [ret |-> NilError, endpoint |-> endpoint, header |-> {},
              calls |-> acquire \o <<Call("hook", "")>> \o release \o recovered]
        ELSE IF r.panic
        THEN [ret |-> NilError, endpoint |-> endpoint, header |-> {},
              calls |-> acquire \o <<Call("hook", "")>> \o r.calls \o release \o recovered]
        ELSE IF r.err # NilError
        THEN [ret |-> r.err, endpoint |-> endpoint,
              header |-> MergeHeader(IF r.err.ErrorCode = "PERMISSION_DENIED"
                                     THEN webc.errHeader ELSE {},
                                     webc.respHeader),
              calls |-> acquire \o <<Call("hook", "")>> \o r.calls
                        \o <<Call("MergeHeader", "")>> \o release]
        ELSE IF webc.writer = "panic"
        THEN [ret |-> NilError, endpoint |-> endpoint, header |-> {},
              calls |-> acquire \o <<Call("hook", "")>> \o r.calls
                        \o <<Call("responseWriter", ToString(r.status))>>
                        \o release \o recovered]
        ELSE [ret |-> IF webc.writer = "error" THEN WriterError ELSE NilError,
              endpoint |-> endpoint, header |-> {},
              calls |-> acquire \o <<Call("hook", "")>> \o r.calls
                        \o <<Call("responseWriter", ToString(r.status))>> \o release]

\* versionLookup: the value of the request's X-Version header.
versionLookup(webc) == webc.version

HandleMultiEndpointRequest(webc, multi) ==
    LET version == versionLookup(webc)
        sel == FindByVersion(multi, version)
    IN  IF sel.found
        THEN HandleEndpointRequest(webc, multi[sel.version])
        ELSE [ret |-> ErrRouteNotFound, endpoint |-> NoEndpoint, header |-> {},
              calls |-> << >>]

\* The web server hands the error a handler returned to the error handler
\* the engine installed. webc.errWriter says what the errors writer returns.
defaultServerErrorHandler(out, webc) ==
    IF out.ret = NilError THEN out
    ELSE LET serve == IF out.ret = WriterError
                      THEN [StatusCode |-> StatusServerError,
                            ErrorCode |-> ErrorCodeGatewayInternal,
                            Message |-> out.ret.Message, CauseError |-> ""]
                      ELSE out.ret
             header == IF out.ret = WriterError THEN {} ELSE out.header
         IN  [out EXCEPT
                 !.header = header,
                 !.calls = @ \o <<Call("errorsWriter", serve.ErrorCode)>>
                             \o (IF webc.errWriter = "error"
                                 THEN <<Call("logError", "")>> ELSE << >>)]

-----------------------------------------------------------------------------
(* Requests                                                                *)

\* Sequences over S of length at most n.
SeqsUpTo(S, n) == UNION {[1..m -> S] : m \in 0..n}

\* Filter lists in which no filter is registered twice.
GlobalFilterLists ==
    {s \in SeqsUpTo(FilterIds, MaxGlobal) : \A i, j \in 1..Len(s) : s[i] = s[j] => i = j}

FilterSelectors == [activate : BOOLEAN, select : {<<"C">>, <<"B", "C">>}]

ContextErrs == {"", "context canceled", "context deadline exceeded"}

\* X-Version header values: the stored versions and one that is never stored.
RequestVersions == EventVersions \cup {"v9"}

\* A request with what the handlers consult while serving it: the web context
\* (key, version), the ext registries (globals, selectors), what each filter
\* and the transporter do with it (kind, reply) and its context's state
\* when the terminal step is reached (ctxErr).
RequestsFor(keys, versions, eps) ==
    [key : keys, version : versions, endpoint : eps,
     globals : GlobalFilterLists, selectors : SeqsUpTo(FilterSelectors, MaxSelectors),
     kind : [FilterIds -> FilterKinds], ctxErr : ContextErrs, reply : {"ok", "error"},
     hook : {"ok"}, writer : {"ok"}, errWriter : {"ok"},
     respHeader : {{}}, errHeader : {{}}]

NoRequest ==
    [key |-> <<"GET", "/a">>, version |-> "", endpoint |-> NoEndpoint,
     globals |-> << >>, selectors |-> << >>, kind |-> [f \in FilterIds |-> "pass"],
     ctxErr |-> "", reply |-> "ok", hook |-> "ok", writer |-> "ok", errWriter |-> "ok",
     respHeader |-> {}, errHeader |-> {}]

NoOutcome == [ret |-> NilError, endpoint |-> NoEndpoint, header |-> {}, calls |-> << >>]

\* The requests of the serve engine run: a fixed filter configuration.
EngineRequests ==
    {[key |-> k, version |-> v, endpoint |-> NoEndpoint,
      globals |-> <<"A", "B">>,
      selectors |-> <<[activate |-> TRUE, select |-> <<"C">>]>>,
      kind |-> [f \in FilterIds |-> "pass"],
      ctxErr |-> "", reply |-> "ok", hook |-> "ok", writer |-> "ok", errWriter |-> "ok",
      respHeader |-> {}, errHeader |-> {}] :
        k \in RouteKeys, v \in RequestVersions}

\* The public web server dispatches a request to the handler bound for its route.
Request ==
    /\ \E req \in EngineRequests :
          /\ httpHandlers[req.key] > 0
          /\ request' = req
          /\ outcome' = HandleMultiEndpointRequest(req, endpoints[req.key])
    /\ UNCHANGED <<registryVars, pending, engineVars>>

\* Endpoints served directly, as a managed handler serves its endpoint.
RequestEndpoints ==
    {e \in Endpoints : e.Version = "v1" /\ e.HttpMethod = "GET" /\ ~e.Managed}

\* Requests handed to HandleEndpointRequest with their endpoint resolved.
EndpointRequests == RequestsFor({<<"GET", "/a">>}, {"v1"}, RequestEndpoints)

ServeEndpoint ==
    /\ pending
    /\ pending' = FALSE
    /\ outcome' = HandleEndpointRequest(request, request.endpoint)
    /\ UNCHANGED <<registryVars, request, engineVars>>

\* Requests with every fault a hook, a filter, the transporter or a writer can
\* raise, under one filter configuration: A and B global, C selected.
FaultRequests ==
    [key : {<<"GET", "/a">>}, version : {"v1"}, endpoint : RequestEndpoints,
     globals : {<<"A", "B">>},
     selectors : {<<[activate |-> TRUE, select |-> <<"C">>]>>},
     kind : [FilterIds -> FilterFaults],
     ctxErr : {"", "context canceled"},
     reply : {"ok", "error", "panic"},
     hook : {"ok", "panic"},
     writer : {"ok", "error", "panic"},
     errWriter : {"ok", "error"},
     respHeader : SUBSET {"X-Trace"},
     errHeader : SUBSET {"WWW-Authenticate"}]

\* The web server calls the handler of a managed endpoint and passes the
\* error it returns to the engine's error handler.
ServeFault ==
    /\ pending
    /\ pending' = FALSE
    /\ outcome' = defaultServerErrorHandler(
                      HandleEndpointRequest(request, request.endpoint), request)
    /\ UNCHANGED <<registryVars, request, engineVars>>

\* The version tables of route GET /a: any set of versions, one endpoint each.
VersionTables ==
    UNION {{mve \in [vs -> [Version : Versions, HttpMethod : {"GET"}, HttpPattern : {"/a"},
                            RpcProto : RpcProtos, Managed : {FALSE}]] :
               \A v \in vs : mve[v].Version = v} : vs \in SUBSET Versions}

\* Requests for GET /a with every stored version, none, and one never stored.
VersionRequests ==
    {[req EXCEPT !.version = v] :
        req \in {r \in EngineRequests : r.key = <<"GET", "/a">>}, v \in Versions \cup {"v9"}}

\* The public web server calls the handler bound for the request's route.
VersionRequest ==
    /\ pending
    /\ httpHandlers[request.key] > 0
    /\ pending' = FALSE
    /\ outcome' = HandleMultiEndpointRequest(request, endpoints[request.key])
    /\ UNCHANGED <<registryVars, request, engineVars>>

-----------------------------------------------------------------------------
(* Discovery event loops                                                   *)

MaxDelivered == 2

Loops == {"endpoint", "service"}

\* The events the discovery source sends while the loops are observed.
LoopEvents(l) ==
    IF l = "endpoint"
    THEN {[EventType |-> ty,
           Endpoint |-> [Version |-> "v1", HttpMethod |-> "GET", HttpPattern |-> "/a",
                         RpcProto |-> "http", Managed |-> FALSE]] :
             ty \in {EventTypeAdded, EventTypeRemoved}}
    ELSE {[EventType |-> ty,
           Service |-> [ServiceId |-> "s1", AliasId |-> "a1", Interface |-> "i1"]] :
             ty \in {EventTypeAdded, EventTypeRemoved}}

NoChannels ==
    [queue |-> [l \in Loops |-> << >>],
     closed |-> [l \in Loops |-> FALSE],
     delivered |-> [l \in Loops |-> << >>],
     applied |-> [l \in Loops |-> << >>]]

\* The discovery source sends an event on the channel of loop l; late says
\* whether Shutdown had returned by then.
Deliver ==
    /\ \E l \in Loops : \E ev \in LoopEvents(l) :
          LET msg == [event |-> ev, late |-> shutdown.returned]
          IN  /\ ~channels.closed[l]
              /\ Len(channels.delivered["endpoint"]) + Len(channels.delivered["service"])
                    < MaxDelivered
              /\ channels' = [channels EXCEPT !.queue[l] = Append(@, msg),
                                              !.delivered[l] = Append(@, msg)]
    /\ UNCHANGED <<registryVars, request, pending, outcome,
                   services, hooks, shutdown, loops, inflight, boot, perm, compose>>

\* The discovery source closes the channel of loop l.
CloseChannel ==
    /\ \E l \in Loops :
          /\ ~channels.closed[l]
          /\ channels' = [channels EXCEPT !.closed[l] = TRUE]
    /\ UNCHANGED <<registryVars, request, pending, outcome,
                   services, hooks, shutdown, loops, inflight, boot, perm, compose>>

\* The channels after loop l received the event at the head of its queue.
ReceivedBy(l) ==
    [channels EXCEPT !.queue[l] = Tail(@),
                     !.applied[l] = Append(@, Head(channels.queue[l]))]

\* for event := range events { s.HandleHttpEndpointEvent(event) }
EndpointLoop ==
    /\ loops["endpoint"] = "running"
    /\ IF channels.queue["endpoint"] # << >>
       THEN /\ HandleHttpEndpointEvent(Head(channels.queue["endpoint"]).event)
            /\ channels' = ReceivedBy("endpoint")
            /\ UNCHANGED loops
       ELSE /\ channels.closed["endpoint"]
            /\ loops' = [loops EXCEPT !["endpoint"] = "stopped"]
            /\ UNCHANGED <<endpoints, httpHandlers, manageHandlers, channels>>
    /\ UNCHANGED <<history, nEvents, request, pending, outcome,
                   services, hooks, shutdown, inflight, boot, perm, compose>>

\* for event := range events { s.HandleBackendServiceEvent(event) }
ServiceLoop ==
    /\ loops["service"] = "running"
    /\ IF channels.queue["service"] # << >>
       THEN /\ HandleBackendServiceEvent(Head(channels.queue["service"]).event)
            /\ channels' = ReceivedBy("service")
            /\ UNCHANGED loops
       ELSE /\ channels.closed["service"]
            /\ loops' = [loops EXCEPT !["service"] = "stopped"]
            /\ UNCHANGED <<services, channels>>
    /\ UNCHANGED <<registryVars, request, pending, outcome, hooks, shutdown, inflight, boot, perm, compose>>

-----------------------------------------------------------------------------
(* Requests concurrent with endpoint events                                *)

Handlers == {1, 2}

\* Two endpoints for GET /a at version v1 that differ in two attributes.
ConcurrentEndpoints ==
    {[Version |-> "v1", HttpMethod |-> "GET", HttpPattern |-> "/a",
      RpcProto |-> "http", Managed |-> FALSE, Service |-> "s1"],
     [Version |-> "v1", HttpMethod |-> "GET", HttpPattern |-> "/a",
      RpcProto |-> "grpc", Managed |-> FALSE, Service |-> "s2"]}

ConcurrentEvents ==
    [EventType : {EventTypeAdded, EventTypeUpdated}, Endpoint : ConcurrentEndpoints]

NoInflight == [h \in Handlers |-> [state |-> "idle", endpoint |-> NoEndpoint]]

\* The endpoint event loop handles one event while requests are in flight.
ConcurrentEvent ==
    /\ nEvents < MaxEvents
    /\ \E ev \in ConcurrentEvents :
          /\ HandleHttpEndpointEvent(ev)
          /\ RecordEvent(ev)
    /\ UNCHANGED <<request, pending, outcome, engineVars>>

\* Handler h, called by the web server for GET /a with X-Version v1, returns
\* from FindByVersion with the endpoint the table holds at that moment.
Lookup ==
    /\ \E h \in Handlers :
          LET multi == endpoints[<<"GET", "/a">>]
              sel == FindByVersion(multi, "v1")
          IN  /\ inflight[h].state = "idle"
              /\ httpHandlers[<<"GET", "/a">>] > 0
              /\ inflight' = [inflight EXCEPT ![h] =
                     IF sel.found
                     THEN [state |-> "found", endpoint |-> multi[sel.version]]
                     ELSE [state |-> "miss", endpoint |-> NoEndpoint]]
    /\ UNCHANGED <<registryVars, request, pending, outcome,
                   services, hooks, shutdown, channels, loops, boot, perm, compose>>

\* Handler h goes on to HandleEndpointRequest with the endpoint it found.
Serve ==
    /\ \E h \in Handlers :
          /\ inflight[h].state = "found"
          /\ inflight' = [inflight EXCEPT ![h] =
                 [state |-> "served",
                  endpoint |-> HandleEndpointRequest(NoRequest, inflight[h].endpoint).endpoint]]
    /\ UNCHANGED <<registryVars, request, pending, outcome,
                   services, hooks, shutdown, channels, loops, boot, perm, compose>>

-----------------------------------------------------------------------------
(* Filter initialization                                                   *)

MaxDyn == 3

\* Ids and types of the entries of the dynfilter configuration block; "" is
\* an entry without id.
DynIds == {"", "d1", "d2"}
DynTypes == {"t1", "t2"}

\* The types with a factory registered in ext.
typedFactories == {"t1"}

\* One entry of the dynfilter block, which is also the configuration the
\* filter made for it is initialized with.
DynEntries == [id : DynIds, type : DynTypes, disabled : BOOLEAN]

IsDisabled(config) == config.disabled

FactoryByType(typeName) == typeName \in typedFactories

\* The loop of dynamicFilters from entry i on. lookups lists the FactoryByType
\* calls made.
RECURSIVE dynamicFiltersFrom(_, _, _, _)
dynamicFiltersFrom(entries, i, out, lookups) ==
    IF i > Len(entries) THEN [err |-> "", out |-> out, lookups |-> lookups]
    ELSE LET config == entries[i]
             filterID == config.id
             filterType == config.type
         IN  IF filterID = "" THEN dynamicFiltersFrom(entries, i + 1, out, lookups)
             ELSE IF IsDisabled(config) THEN dynamicFiltersFrom(entries, i + 1, out, lookups)
             ELSE IF ~FactoryByType(filterType)
             THEN [err |-> "FilterFactory not found", out |-> << >>,
                   lookups |-> Append(lookups, filterType)]
             ELSE dynamicFiltersFrom(entries, i + 1,
                      Append(out, [Id |-> filterID, TypeId |-> filterType,
                                   Factory |-> filterType, Config |-> config]),
                      Append(lookups, filterType))

\* dynamicFilters that passes over an entry whose type has no factory.
dynamicFilters_SkipUnknown(entries) ==
    dynamicFiltersFrom(SelectSeq(entries, LAMBDA c : FactoryByType(c.type)), 1, << >>, << >>)

dynamicFilters(entries) == dynamicFiltersFrom(entries, 1, << >>, << >>)

\* What Dispatcher.Init has done so far: the error it returns, the Init calls
\* it made, the references enrolled with ext.AddHookFunc, the filters made by
\* factories, the FactoryByType calls, and ext.SelectiveFilters().
NoDispatcher(selectives) ==
    [err |-> "", inits |-> << >>, hookFuncs |-> << >>, instances |-> << >>,
     lookups |-> << >>, selective |-> selectives]

\* initErr holds the references whose Init returns an error.
AddInitHook(st, ref, config, initErr) ==
    IF ref \in initErr
    THEN [st EXCEPT !.err = ref, !.inits = Append(@, [ref |-> ref, config |-> config])]
    ELSE [st EXCEPT !.inits = Append(@, [ref |-> ref, config |-> config]),
                    !.hookFuncs = Append(@, ref)]

\* The configuration under the namespace of a static filter.
StaticConfig(cfg, f) == [id |-> f, type |-> "", disabled |-> f \in cfg.disabled]

\* The loop over the static filters from filter i on.
RECURSIVE initStatic(_, _, _, _)
initStatic(st, filters, i, cfg) ==
    IF i > Len(filters) \/ st.err # "" THEN st
    ELSE LET filter == filters[i]
             config == StaticConfig(cfg, filter)
         IN  IF IsDisabled(config) THEN initStatic(st, filters, i + 1, cfg)
             ELSE initStatic(AddInitHook(st, filter, config, cfg.initErr), filters, i + 1, cfg)

\* The loop over the dynamic filters from item i on.
RECURSIVE initDynamic(_, _, _, _)
initDynamic(st, items, i, cfg) ==
    IF i > Len(items) \/ st.err # "" THEN st
    ELSE LET item == items[i]
             made == [st EXCEPT !.instances = Append(@, [id |-> item.Id, type |-> item.Factory])]
         IN  IF IsDisabled(item.Config) THEN initDynamic(made, items, i + 1, cfg)
             ELSE LET hooked == AddInitHook(made, item.Id, item.Config, cfg.initErr)
                  IN  initDynamic(IF hooked.err # "" THEN hooked
                                  ELSE [hooked EXCEPT !.selective = Append(@, item.Id)],
                                  items, i + 1, cfg)

\* Dispatcher.Init under configuration cfg: the transporter, the static
\* filters (global, then selective), then the dynamic filters.
DispatcherInit(cfg) ==
    LET st1 == AddInitHook(NoDispatcher(cfg.selectives), "http",
                           [id |-> "http", type |-> "", disabled |-> FALSE], cfg.initErr)
        st2 == IF st1.err # "" THEN st1
               ELSE initStatic(st1, cfg.globals \o cfg.selectives, 1, cfg)
        dyn == dynamicFilters(cfg.dyn)
    IN  IF st2.err # "" THEN st2
        ELSE IF dyn.err # "" THEN [st2 EXCEPT !.err = dyn.err, !.lookups = dyn.lookups]
        ELSE initDynamic([st2 EXCEPT !.lookups = dyn.lookups], dyn.out, 1, cfg)

-----------------------------------------------------------------------------
(* Lifecycle: Initial and StartServe                                       *)

DefaultPort == 8080
DefaultAddress == "0.0.0.0"

\* Values of the port keys of namespace HttpWebServer; 0 is a key not set.
ConfigPorts == {0, DefaultPort, 9090}
\* Values of the address keys; "" is a key not set.
ConfigAddresses == {"", "127.0.0.1"}

\* s.config.GetInt / GetString: the configured value, else the default the
\* engine set for the key, else the zero value.
GetInt(cfg, key) ==
    IF cfg[key] # 0 THEN cfg[key] ELSE IF key = "port" THEN DefaultPort ELSE 0

GetString(cfg, key) ==
    IF cfg[key] # "" THEN cfg[key] ELSE IF key = "address" THEN DefaultAddress ELSE ""

\* The echo endpoint registered at boot when feature-echo-enable is set.
EchoEndpoints ==
    {[EventType |-> EventTypeAdded,
      Endpoint |-> [Version |-> "", HttpMethod |-> "GET", HttpPattern |-> "/a",
                    RpcProto |-> "http", Managed |-> FALSE]]}

\* What the process is started with: the ext registries (globals, selectives),
\* the configuration (disabled, dyn, echo and the bind keys) and what the
\* collaborators return (initErr, registryErr, startupErr, watchErr).
BootConfigs ==
    [globals : {<<"A", "B">>}, selectives : {<<"C">>},
     disabled : SUBSET {"A", "C"}, initErr : {{}, {"B"}},
     dyn : {<< >>, <<[id |-> "d1", type |-> "t1", disabled |-> FALSE]>>,
            <<[id |-> "d1", type |-> "t2", disabled |-> FALSE]>>},
     echo : BOOLEAN, registryErr : BOOLEAN,
     port : ConfigPorts, address : ConfigAddresses,
     managePort : ConfigPorts, manageAddress : {""},
     startupErr : BOOLEAN, watchErr : {"", "endpoints", "services"}]

\* A process that went through Initial and StartServe without error, with
\* nothing disabled and no dynamic filter.
ServingConfig ==
    [globals |-> <<"A", "B">>, selectives |-> <<"C">>, disabled |-> {}, initErr |-> {},
     dyn |-> << >>, echo |-> FALSE, registryErr |-> FALSE,
     port |-> 0, address |-> "", managePort |-> 9090, manageAddress |-> "",
     startupErr |-> FALSE, watchErr |-> ""]

\* The engine as constructed: no web server yet, both signal channels open.
NewBoot(cfg) ==
    [config |-> cfg, phase |-> "new", httpWebServer |-> FALSE,
     dispatcher |-> NoDispatcher(cfg.selectives), ret |-> "",
     launched |-> {}, started |-> 0, startTLS |-> << >>, routed |-> << >>]

\* s.ensure(): panics unless Initial created the public web server.
ensure(b) == b.httpWebServer

\* The order in which the process calls the engine, with Startup also called
\* after Initial returned an error.
LifecycleOrder_AnyInitial(b) == b.phase \in {"initialized", "failed"}

\* The order in which the process calls the engine: Startup only after
\* Initial returned without error.
LifecycleOrder(b) == b.phase = "initialized"

\* Initial up to the call of s.router.Initial(): the web servers are made,
\* the registry is activated, the echo endpoints are registered.
InitialServers ==
    /\ boot.phase = "new"
    /\ IF boot.config.registryErr
       THEN /\ boot' = [boot EXCEPT !.phase = "failed", !.httpWebServer = TRUE,
                                    !.ret = "registry"]
            /\ UNCHANGED <<endpoints, httpHandlers, manageHandlers>>
       ELSE /\ boot' = [boot EXCEPT !.phase = "initial", !.httpWebServer = TRUE]
            /\ IF boot.config.echo
               THEN \E evt \in EchoEndpoints : HandleHttpEndpointEvent(evt)
               ELSE UNCHANGED <<endpoints, httpHandlers, manageHandlers>>
    /\ UNCHANGED <<history, nEvents, request, pending, outcome,
                   services, hooks, shutdown, channels, loops, inflight, perm, compose>>

\* return s.router.Initial(): the dispatcher initializes transporters and filters.
InitialRouter ==
    /\ boot.phase = "initial"
    /\ LET d == DispatcherInit(boot.config)
       IN  boot' = [boot EXCEPT !.dispatcher = d, !.ret = d.err,
                                !.phase = IF d.err = "" THEN "initialized" ELSE "failed"]
    /\ UNCHANGED <<registryVars, request, pending, outcome,
                   services, hooks, shutdown, channels, loops, inflight, perm, compose>>

\* startServer: the StartTLS call it makes on server.
startServer(server, address, port) == [server |-> server, address |-> address, port |-> port]

\* StartServe up to the StartTLS calls: startup hooks, the two watches with
\* their loops, close(s.started), then the admin and the public web server.
\* A loop is running from its go statement on; no return path stops one.
StartServe ==
    /\ ensure(boot)
    /\ LifecycleOrder(boot)
    /\ LET cfg == boot.config IN
       boot' =
         IF cfg.startupErr
         THEN [boot EXCEPT !.phase = "stopped", !.ret = "startup"]
         ELSE IF cfg.watchErr = "endpoints"
         THEN [boot EXCEPT !.phase = "stopped", !.ret = "start registry watching"]
         ELSE IF cfg.watchErr = "services"
         THEN [boot EXCEPT !.phase = "stopped", !.ret = "start registry watching",
                           !.launched = {"endpoint"}]
         ELSE [boot EXCEPT
                 !.phase = "serving",
                 !.launched = {"endpoint", "service"},
                 !.started = @ + 1,
                 !.startTLS =
                     <<startServer("manage", GetString(cfg, "manageAddress"),
                                   GetInt(cfg, "managePort")),
                       startServer("http", GetString(cfg, "address"),
                                   GetInt(cfg, "managePort"))>>]
    /\ loops' = [l \in Loops |-> IF l \in boot'.launched THEN "running" ELSE loops[l]]
    /\ UNCHANGED <<registryVars, request, pending, outcome,
                   services, hooks, shutdown, channels, inflight, perm, compose>>

\* The engine of ServingConfig after Initial and StartServe.
ServingBoot ==
    [NewBoot(ServingConfig) EXCEPT
        !.phase = "serving", !.httpWebServer = TRUE,
        !.dispatcher = DispatcherInit(ServingConfig),
        !.launched = {"endpoint", "service"}, !.started = 1,
        !.startTLS =
            <<startServer("manage", GetString(ServingConfig, "manageAddress"),
                          GetInt(ServingConfig, "managePort")),
              startServer("http", GetString(ServingConfig, "address"),
                          GetInt(ServingConfig, "managePort"))>>]

\* Whether StartTLS was called on server.
Listening(b, server) == \E i \in 1..Len(b.startTLS) : b.startTLS[i].server = server

\* The requests that reach a handler of the public web server: the chain is
\* made of ext.GlobalFilters() and of what the selector picks from
\* ext.SelectiveFilters().
BootRequests(b) ==
    {[NoRequest EXCEPT !.version = v,
                       !.globals = b.config.globals,
                       !.selectors = <<[activate |-> TRUE, select |-> b.config.selectives]>>] :
        v \in {"", "v1"}}

\* The public web server, once it listens, dispatches a request to the
\* handler bound for its route; routed records whether Dispatcher.Init had
\* returned without error by then.
BootRequest ==
    /\ Listening(boot, "http")
    /\ boot.routed = << >>
    /\ \E req \in BootRequests(boot) :
          /\ httpHandlers[req.key] > 0
          /\ request' = req
          /\ outcome' = HandleMultiEndpointRequest(req, endpoints[req.key])
    /\ boot' = [boot EXCEPT !.routed = Append(@, boot.phase \notin {"new", "initial"}
                                                 /\ boot.dispatcher.err = "")]
    /\ UNCHANGED <<registryVars, pending,
                   services, hooks, shutdown, channels, loops, inflight, perm, compose>>

-----------------------------------------------------------------------------
(* Permission filter                                                       *)

StatusUnauthorized == 401

ErrorCodePermissionDenied == "PERMISSION_DENIED"

\* ext.ServiceByID: whether the directory holds an entry under id.
ServiceByID(dir, id) == id \in DOMAIN dir

NewPermissionVerifyReport(success, errorCode, message) ==
    [StatusCode |-> StatusUnauthorized, Success |-> success,
     ErrorCode |-> errorCode, Message |-> message]

EnsurePermissionStatusCode(status) == IF status < 100 THEN StatusForbidden ELSE status

EnsurePermissionErrorCode(code) == IF code = "" THEN ErrorCodePermissionDenied ELSE code

EnsurePermissionMessage(message) == IF message = "" THEN "PERMISSION:ACCESS_DENIED" ELSE message

\* The reports a VerifyFunc returns: built by NewPermissionVerifyReport, or
\* as a literal with or without a status.
PermissionReports ==
    {NewPermissionVerifyReport(s, c, "") : s \in BOOLEAN, c \in {"", "TOKEN_EXPIRED"}}
    \cup [StatusCode : {0, StatusForbidden}, Success : BOOLEAN,
          ErrorCode : {"", "TOKEN_EXPIRED"}, Message : {""}]

\* What VerifyFunc returns: a report, with no error, a *flux.ServeError or
\* another error.
VerifyResults == [err : {"", "serve", "other"}, report : PermissionReports]

\* The ServeError a VerifyFunc returns as its error.
VerifyServeError ==
    [StatusCode |-> StatusUnauthorized, ErrorCode |-> "VERIFY", Message |-> "", CauseError |-> ""]

\* One invocation of the filter: the filter's Disabled field, what SkipFunc
\* returns, the endpoint's permission service ids, what VerifyFunc returns.
PermissionInputs ==
    [disabled : BOOLEAN, skip : BOOLEAN,
     permissions : {<< >>, <<"s1">>, <<"a1">>, <<"s1", "s2">>},
     verify : VerifyResults]

\* The invocations that run while service events are applied.
ConcurrentPermissionInputs ==
    [disabled : BOOLEAN, skip : BOOLEAN,
     permissions : {<< >>, <<"s1">>, <<"s1", "a1">>},
     verify : {[err |-> "", report |-> NewPermissionVerifyReport(s, "", "")] : s \in BOOLEAN}]

\* The service events applied while the filter runs: s1 added and removed,
\* with and without its alias.
ConcurrentServiceEvents ==
    {ev \in ServiceEvents :
        /\ ev.EventType \in {EventTypeAdded, EventTypeRemoved}
        /\ ev.Service.ServiceId = "s1" /\ ev.Service.Interface = "i1"
        /\ ev.Service.AliasId \in {"", "a1"}}

\* The service event loop handles one event while the filter runs.
ConcurrentServiceEvent ==
    /\ \E ev \in ConcurrentServiceEvents : HandleBackendServiceEvent(ev)
    /\ UNCHANGED <<registryVars, request, pending, outcome,
                   hooks, shutdown, channels, loops, inflight, boot, perm, compose>>

\* The filter's invoker about to be called with input in.
NewPerm(in) ==
    [pc |-> "start", input |-> in, i |-> 1, found |-> << >>, calls |-> << >>,
     ret |-> NilError]

NoPerm ==
    [NewPerm([disabled |-> FALSE, skip |-> FALSE, permissions |-> << >>,
              verify |-> [err |-> "", report |-> NewPermissionVerifyReport(TRUE, "", "")]])
        EXCEPT !.pc = "idle"]

\* The invoker DoFilter returned is called: next itself when the filter is
\* disabled; otherwise SkipFunc decides between next and the verification.
PermissionEnter ==
    /\ perm.pc = "start"
    /\ perm' =
         IF perm.input.disabled
         THEN [perm EXCEPT !.pc = "done", !.calls = Append(@, Call("next", ""))]
         ELSE IF perm.input.skip
         THEN [perm EXCEPT !.pc = "done",
                           !.calls = @ \o <<Call("SkipFunc", ""), Call("next", "")>>]
         ELSE [perm EXCEPT !.pc = "lookup", !.calls = Append(@, Call("SkipFunc", ""))]
    /\ UNCHANGED <<registryVars, request, pending, outcome,
                   services, hooks, shutdown, channels, loops, inflight, boot, compose>>

\* The loop's turn that passes over an id the directory does not hold.
PermissionLookup_IgnoreMissing ==
    /\ perm.pc = "lookup"
    /\ perm.i <= Len(perm.input.permissions)
    /\ LET id == perm.input.permissions[perm.i] IN
       perm' =
         IF ServiceByID(services, id)
         THEN [perm EXCEPT !.i = @ + 1, !.found = Append(@, services[id]),
                           !.calls = Append(@, Call("ServiceByID", id))]
         ELSE [perm EXCEPT !.i = @ + 1, !.calls = Append(@, Call("ServiceByID", id))]
    /\ UNCHANGED <<registryVars, request, pending, outcome,
                   services, hooks, shutdown, channels, loops, inflight, boot, compose>>

\* One turn of the loop over the permission ids: ext.ServiceByID(id).
PermissionLookup ==
    /\ perm.pc = "lookup"
    /\ perm.i <= Len(perm.input.permissions)
    /\ LET id == perm.input.permissions[perm.i] IN
       perm' =
         IF ServiceByID(services, id)
         THEN [perm EXCEPT !.i = @ + 1, !.found = Append(@, services[id]),
                           !.calls = Append(@, Call("ServiceByID", id))]
         ELSE [perm EXCEPT !.pc = "done",
                           !.calls = Append(@, Call("ServiceByID", id)),
                           !.ret = [StatusCode |-> StatusServerError,
                                    ErrorCode |-> ErrorCodeGatewayInternal,
                                    Message |-> "PERMISSION:SERVICE:NOT_FOUND",
                                    CauseError |-> id]]
    /\ UNCHANGED <<registryVars, request, pending, outcome,
                   services, hooks, shutdown, channels, loops, inflight, boot, compose>>

\* After the loop: VerifyFunc, its metric, and what the filter makes of the
\* result. next returns nil.
PermissionVerify ==
    /\ perm.pc = "lookup"
    /\ perm.i > Len(perm.input.permissions)
    /\ LET v == perm.input.verify
           called == perm.calls \o <<Call("VerifyFunc", ""), Call("AddMetric", "permission_filter")>>
       IN  perm' =
             IF v.err = "serve"
             THEN [perm EXCEPT !.pc = "done", !.calls = called, !.ret = VerifyServeError]
             ELSE IF v.err # ""
             THEN [perm EXCEPT !.pc = "done", !.calls = called,
                               !.ret = [StatusCode |-> StatusForbidden,
                                        ErrorCode |-> ErrorCodeGatewayInternal,
                                        Message |-> "PERMISSION:VERIFY:ERROR",
                                        CauseError |-> v.err]]
             ELSE IF ~v.report.Success
             THEN [perm EXCEPT !.pc = "done", !.calls = called,
                               !.ret = [StatusCode |-> EnsurePermissionStatusCode(v.report.StatusCode),
                                        ErrorCode |-> EnsurePermissionErrorCode(v.report.ErrorCode),
                                        Message |-> EnsurePermissionMessage(v.report.Message),
                                        CauseError |-> ""]]
             ELSE [perm EXCEPT !.pc = "done", !.calls = Append(called, Call("next", ""))]
    /\ UNCHANGED <<registryVars, request, pending, outcome,
                   services, hooks, shutdown, channels, loops, inflight, boot, compose>>

-----------------------------------------------------------------------------
(* Chain composition by concurrent Route calls                             *)

MaxSpare == 2

\* The zero value of an array element no filter was stored in.
NilFilter == ""

\* The arrays filter slices point into: the one ext's registry keeps the
\* global filters in and, for each handler, the one ext.GlobalFilters()
\* allocates and the one append allocates when it has to grow.
Arrays == {<<"ext", 0>>} \cup {<<a, h>> : a \in {"globals", "filters"}, h \in Handlers}

\* The elements of slice s: the first s.len elements of its array.
Elements(heap, s) == SubSeq(heap[s.array], 1, s.len)

\* append(s, xs...): stores xs behind the elements of s in the array of s
\* when its capacity holds them, else in the new array to.
append(heap, s, xs, to) ==
    IF s.len + Len(xs) <= s.cap
    THEN [heap |-> [heap EXCEPT ![s.array] =
                       [i \in 1..s.cap |->
                           IF i > s.len /\ i <= s.len + Len(xs) THEN xs[i - s.len] ELSE @[i]]],
          slice |-> [s EXCEPT !.len = @ + Len(xs)]]
    ELSE [heap |-> [heap EXCEPT ![to] = Elements(heap, s) \o xs],
          slice |-> [array |-> to, len |-> s.len + Len(xs), cap |-> s.len + Len(xs)]]

\* ext.GlobalFilters() that returns the slice the registry itself keeps.
GlobalFilters_Registry(heap, registry, h) == [heap |-> heap, slice |-> registry]

\* ext.GlobalFilters() called by handler h: a slice of the caller's own, over
\* a copy of the global filters the registry holds.
GlobalFilters(heap, registry, h) ==
    LET to == <<"globals", h>>
    IN  [heap |-> [heap EXCEPT ![to] = Elements(heap, registry)],
         slice |-> [array |-> to, len |-> registry.len, cap |-> registry.len]]

\* What ext.FilterSelectors() holds for a request.
ComposeSelectors == SeqsUpTo(FilterSelectors, MaxSelectors)

NoSlice == [array |-> <<"ext", 0>>, len |-> 0, cap |-> 0]

NoRoute ==
    [pc |-> "idle", selectors |-> << >>, selective |-> << >>, filters |-> NoSlice,
     chain |-> << >>, concurrent |-> {}]

\* The process after startup: the registry holds globals in an array with
\* spare more elements of capacity; no handler is in Route.
NewCompose(globals, spare) ==
    [globals |-> globals,
     registry |-> [array |-> <<"ext", 0>>, len |-> Len(globals), cap |-> Len(globals) + spare],
     heap |-> [a \in Arrays |->
                  IF a = <<"ext", 0>>
                  THEN globals \o [i \in 1..spare |-> NilFilter]
                  ELSE << >>],
     route |-> [h \in Handlers |-> NoRoute]]

NoCompose == NewCompose(<< >>, 0)

\* Route in handler h, the loop over ext.FilterSelectors(): selective holds
\* the filters of the selectors that activate.
RouteSelect(h) ==
    /\ compose.route[h].pc = "idle"
    /\ \E selectors \in ComposeSelectors :
          compose' = [compose EXCEPT
                        !.route[h] = [@ EXCEPT !.pc = "selected",
                                               !.selectors = selectors,
                                               !.selective = selectFilters(selectors)]]
    /\ UNCHANGED <<registryVars, request, pending, outcome,
                   services, hooks, shutdown, channels, loops, inflight, boot, perm>>

\* filters := append(ext.GlobalFilters(), selective...)
RouteAppend(h) ==
    /\ compose.route[h].pc = "selected"
    /\ LET g == GlobalFilters(compose.heap, compose.registry, h)
           a == append(g.heap, g.slice, compose.route[h].selective, <<"filters", h>>)
       IN  compose' = [compose EXCEPT
                         !.heap = a.heap,
                         !.route[h] = [@ EXCEPT !.pc = "composed", !.filters = a.slice]]
    /\ UNCHANGED <<registryVars, request, pending, outcome,
                   services, hooks, shutdown, channels, loops, inflight, boot, perm>>

\* d.walk(transport, filters): the chain is built from the elements filters
\* has by now; concurrent records the handlers that hold a composed slice
\* they have not walked yet.
RouteWalk(h) ==
    /\ compose.route[h].pc = "composed"
    /\ compose' = [compose EXCEPT
                     !.route[h] =
                        [@ EXCEPT
                           !.pc = "walked",
                           !.chain = walk([stages |-> << >>, applied |-> << >>],
                                          Elements(compose.heap, compose.route[h].filters)).stages,
                           !.concurrent = {g \in Handlers \ {h} :
                                              compose.route[g].pc = "composed"}]]
    /\ UNCHANGED <<registryVars, request, pending, outcome,
                   services, hooks, shutdown, channels, loops, inflight, boot, perm>>

-----------------------------------------------------------------------------
(* Specifications                                                          *)

\* The engine started, with nothing stored, sent or shut down yet.
InitEngine ==
    /\ services = << >>
    /\ hooks = NoHooks
    /\ shutdown = NoShutdown
    /\ channels = NoChannels
    /\ loops = [l \in Loops |-> "running"]
    /\ inflight = NoInflight
    /\ boot = ServingBoot
    /\ perm = NoPerm
    /\ compose = NoCompose

Init ==
    /\ InitRegistry
    /\ InitEngine
    /\ request = NoRequest
    /\ pending = FALSE
    /\ outcome = NoOutcome

Next == EndpointEvent \/ Request

Spec == Init /\ [][Next]_vars

InitRequest ==
    /\ InitRegistry
    /\ InitEngine
    /\ request \in EndpointRequests
    /\ pending = TRUE
    /\ outcome = NoOutcome

NextRequest == ServeEndpoint

SpecRequest == InitRequest /\ [][NextRequest]_vars

InitFault ==
    /\ InitRegistry
    /\ InitEngine
    /\ request \in FaultRequests
    /\ pending = TRUE
    /\ outcome = NoOutcome

NextFault == ServeFault

SpecFault == InitFault /\ [][NextFault]_vars

\* The service directory under any sequence of service events.
InitService ==
    /\ InitRegistry
    /\ InitEngine
    /\ request = NoRequest
    /\ pending = FALSE
    /\ outcome = NoOutcome

NextService == ServiceEvent

SpecService == InitService /\ [][NextService]_vars

\* One Shutdown call under every registration of shutdown hooks.
InitShutdown ==
    /\ InitRegistry
    /\ services = << >>
    /\ hooks \in [list : ShutdownHookLists, manageErr : BOOLEAN, httpErr : BOOLEAN]
    /\ shutdown = NoShutdown
    /\ channels = NoChannels
    /\ loops = [l \in Loops |-> "running"]
    /\ inflight = NoInflight
    /\ boot = ServingBoot
    /\ perm = NoPerm
    /\ compose = NoCompose
    /\ request = NoRequest
    /\ pending = FALSE
    /\ outcome = NoOutcome

NextShutdown == Shutdown

SpecShutdown == InitShutdown /\ [][NextShutdown]_vars

\* The two event loops, the discovery source and Shutdown. The Go scheduler
\* runs a loop that can receive or can leave its range statement.
NextLoops == Deliver \/ CloseChannel \/ EndpointLoop \/ ServiceLoop \/ Shutdown

SpecLoops ==
    /\ InitService
    /\ [][NextLoops]_vars
    /\ WF_vars(EndpointLoop)
    /\ WF_vars(ServiceLoop)

\* Request handlers running while the endpoint loop applies events.
NextConcurrent == ConcurrentEvent \/ Lookup \/ Serve

SpecConcurrent == InitService /\ [][NextConcurrent]_vars

\* The lifecycle from construction to the first request, under every
\* configuration of BootConfigs.
InitBoot ==
    /\ InitRegistry
    /\ services = << >>
    /\ hooks = NoHooks
    /\ shutdown = NoShutdown
    /\ channels = NoChannels
    /\ loops = [l \in Loops |-> "idle"]
    /\ inflight = NoInflight
    /\ boot \in {NewBoot(cfg) : cfg \in BootConfigs}
    /\ perm = NoPerm
    /\ compose = NoCompose
    /\ request = NoRequest
    /\ pending = FALSE
    /\ outcome = NoOutcome

NextBoot == InitialServers \/ InitialRouter \/ StartServe \/ BootRequest

SpecBoot == InitBoot /\ [][NextBoot]_vars

\* The configurations Dispatcher.Init is run under: every dynfilter block of
\* at most MaxDyn entries, with or without a filter whose Init fails.
DynConfigs ==
    {[ServingConfig EXCEPT !.dyn = dyn, !.initErr = e] :
        dyn \in SeqsUpTo(DynEntries, MaxDyn), e \in {{}, {"d2"}}}

\* Initial at the call of s.router.Initial(), under every dynfilter block.
InitDyn ==
    /\ InitRegistry
    /\ services = << >>
    /\ hooks = NoHooks
    /\ shutdown = NoShutdown
    /\ channels = NoChannels
    /\ loops = [l \in Loops |-> "running"]
    /\ inflight = NoInflight
    /\ boot \in {[NewBoot(cfg) EXCEPT !.phase = "initial", !.httpWebServer = TRUE] :
                    cfg \in DynConfigs}
    /\ perm = NoPerm
    /\ compose = NoCompose
    /\ request = NoRequest
    /\ pending = FALSE
    /\ outcome = NoOutcome

NextDyn == InitialRouter

SpecDyn == InitDyn /\ [][NextDyn]_vars

\* Service directories the permission filter runs against: empty, s1 with its
\* alias a1, and s1, a1, s2.
PermissionDirectories ==
    LET s1 == [ServiceId |-> "s1", AliasId |-> "a1", Interface |-> "i1"]
        s2 == [ServiceId |-> "s2", AliasId |-> "", Interface |-> "i2"]
        d1 == StoreBackendServiceById(StoreBackendService(<< >>, s1), "a1", s1)
    IN  {<< >>, d1, StoreBackendService(d1, s2)}

\* One invocation of the permission filter against a directory at rest.
InitPermission ==
    /\ InitRegistry
    /\ services \in PermissionDirectories
    /\ hooks = NoHooks
    /\ shutdown = NoShutdown
    /\ channels = NoChannels
    /\ loops = [l \in Loops |-> "running"]
    /\ inflight = NoInflight
    /\ boot = ServingBoot
    /\ perm \in {NewPerm(in) : in \in PermissionInputs}
    /\ compose = NoCompose
    /\ request = NoRequest
    /\ pending = FALSE
    /\ outcome = NoOutcome

NextPermission == PermissionEnter \/ PermissionLookup \/ PermissionVerify

SpecPermission == InitPermission /\ [][NextPermission]_vars

\* One invocation of the permission filter while the service event loop
\* applies events.
InitPermissionConcurrent ==
    /\ InitRegistry
    /\ services = << >>
    /\ hooks = NoHooks
    /\ shutdown = NoShutdown
    /\ channels = NoChannels
    /\ loops = [l \in Loops |-> "running"]
    /\ inflight = NoInflight
    /\ boot = ServingBoot
    /\ perm \in {NewPerm(in) : in \in ConcurrentPermissionInputs}
    /\ compose = NoCompose
    /\ request = NoRequest
    /\ pending = FALSE
    /\ outcome = NoOutcome

NextPermissionConcurrent ==
    ConcurrentServiceEvent \/ PermissionEnter \/ PermissionLookup \/ PermissionVerify

SpecPermissionConcurrent == InitPermissionConcurrent /\ [][NextPermissionConcurrent]_vars

\* One request for route GET /a under every version table the route can hold
\* after its handler was bound.
InitVersion ==
    /\ \E mve \in VersionTables :
          /\ endpoints = [k \in {<<"GET", "/a">>} |-> mve]
          /\ history = [k \in RouteKeys |-> [v \in EventVersions |->
                           IF k = <<"GET", "/a">> /\ v \in DOMAIN mve THEN EventTypeAdded
                           ELSE IF k = <<"GET", "/a">> /\ v = "" /\ mve = << >>
                           THEN EventTypeRemoved ELSE "None"]]
          /\ nEvents = IF mve = << >> THEN 2 ELSE Cardinality(DOMAIN mve)
    /\ httpHandlers = [k \in RouteKeys |-> IF k = <<"GET", "/a">> THEN 1 ELSE 0]
    /\ manageHandlers = [k \in RouteKeys |-> 0]
    /\ InitEngine
    /\ request \in VersionRequests
    /\ pending = TRUE
    /\ outcome = NoOutcome

NextVersion == VersionRequest

SpecVersion == InitVersion /\ [][NextVersion]_vars

\* Route's chain composition in two handlers at once, under every global
\* filter list and spare capacity of the registry's array.
InitCompose ==
    /\ InitRegistry
    /\ services = << >>
    /\ hooks = NoHooks
    /\ shutdown = NoShutdown
    /\ channels = NoChannels
    /\ loops = [l \in Loops |-> "running"]
    /\ inflight = NoInflight
    /\ boot = ServingBoot
    /\ perm = NoPerm
    /\ compose \in {NewCompose(globals, spare) : globals \in GlobalFilterLists, spare \in 0..MaxSpare}
    /\ request = NoRequest
    /\ pending = FALSE
    /\ outcome = NoOutcome

NextCompose == \E h \in Handlers : RouteSelect(h) \/ RouteAppend(h) \/ RouteWalk(h)

SpecCompose == InitCompose /\ [][NextCompose]_vars

-----------------------------------------------------------------------------
(* Properties of the endpoint registry (Spec)                              *)

\* The HTTP methods the engine serves.
MethodWhitelist == {"GET", "POST", "PUT", "DELETE", "HEAD", "OPTIONS", "PATCH", "TRACE"}

\* The route key an event addresses.
KeyOf(ev) == <<ToUpper(ev.Endpoint.HttpMethod), ev.Endpoint.HttpPattern>>

\* Events the engine routes to the multi-version table.
ServeEvents ==
    {ev \in EndpointEvents :
        ToUpper(ev.Endpoint.HttpMethod) \in MethodWhitelist /\ ~ev.Endpoint.Managed}

\* The step in which the event loop handles ev.
Handles(ev) == RecordEvent(ev) /\ HandleHttpEndpointEvent(ev)

\* A step in which a request is handled.
RequestStep == nEvents' = nEvents /\ <<request, outcome>>' # <<request, outcome>>

\* Versions of k whose last event was Added or Updated.
LiveVersions(k) ==
    {v \in EventVersions : history[k][v] \in {EventTypeAdded, EventTypeUpdated}}

Received(k) == \E v \in EventVersions : history[k][v] # "None"

Range(f) == {f[x] : x \in DOMAIN f}

OpsIn(calls) == {calls[i].op : i \in 1..Len(calls)}

\* C1: after any sequence of whitelisted, non-managed events, the versions the
\* MVE of a route key holds are those Added or Updated and not Removed since,
\* and a key that received no such event has no MVE.
C1_VersionSet ==
    \A k \in RouteKeys :
        IF k[1] \in MethodWhitelist /\ Received(k)
        THEN k \in DOMAIN endpoints /\ DOMAIN endpoints[k] = LiveVersions(k)
        ELSE k \notin DOMAIN endpoints

\* A key holds one version after another of its versions was removed.
C1_Witness ==
    \E k \in DOMAIN endpoints :
        /\ history[k]["v1"] = EventTypeRemoved
        /\ history[k][""] = EventTypeUpdated
        /\ DOMAIN endpoints[k] = {""}

\* What an Added event for a served endpoint does to the table and the handlers.
C2_AddedStep ==
    \A ev \in ServeEvents :
        (nEvents' # nEvents /\ ev.EventType = EventTypeAdded /\ Handles(ev)) =>
            LET k == KeyOf(ev)
                e == ev.Endpoint
            IN  /\ \A j \in RouteKeys \ {k} : httpHandlers'[j] = httpHandlers[j]
                /\ \A j \in DOMAIN endpoints \ {k} :
                      j \in DOMAIN endpoints' /\ endpoints'[j] = endpoints[j]
                /\ DOMAIN endpoints' = DOMAIN endpoints \cup {k}
                /\ endpoints'[k][e.Version] = e
                /\ IF k \notin DOMAIN endpoints
                   THEN /\ DOMAIN endpoints'[k] = {e.Version}
                        /\ httpHandlers'[k] = httpHandlers[k] + 1
                   ELSE /\ DOMAIN endpoints'[k] = DOMAIN endpoints[k] \cup {e.Version}
                        /\ \A v \in DOMAIN endpoints[k] \ {e.Version} :
                              endpoints'[k][v] = endpoints[k][v]
                        /\ httpHandlers'[k] = httpHandlers[k]

\* C2: AddWebHandler of the public server is called at most once per route
\* key; Added on an unseen key creates the MVE with the endpoint under its
\* version and binds the handler, Added on a known key only updates the MVE.
C2_RegisterOnce ==
    /\ [](\A k \in RouteKeys : httpHandlers[k] <= 1)
    /\ [][C2_AddedStep]_vars

\* Two Added events reached one key and its handler was bound once.
C2_Witness ==
    \E k \in DOMAIN endpoints :
        /\ \A v \in EventVersions : history[k][v] = EventTypeAdded
        /\ DOMAIN endpoints[k] = EventVersions
        /\ httpHandlers[k] = 1

\* C3: every route key whose MVE holds a version has a handler bound on the
\* public web server.
C3_HandlerBound ==
    \A k \in DOMAIN endpoints : DOMAIN endpoints[k] # {} => httpHandlers[k] > 0

\* What a Removed event for a served endpoint does to the table and the handlers.
C4_RemovedStep ==
    \A ev \in ServeEvents :
        (nEvents' # nEvents /\ ev.EventType = EventTypeRemoved /\ Handles(ev)) =>
            LET k == KeyOf(ev)
                v == ev.Endpoint.Version
            IN  /\ httpHandlers' = httpHandlers
                /\ DOMAIN endpoints' = DOMAIN endpoints \cup {k}
                /\ \A j \in DOMAIN endpoints \ {k} : endpoints'[j] = endpoints[j]
                /\ IF k \in DOMAIN endpoints
                   THEN /\ DOMAIN endpoints'[k] = DOMAIN endpoints[k] \ {v}
                        /\ \A w \in DOMAIN endpoints'[k] : endpoints'[k][w] = endpoints[k][w]
                   ELSE DOMAIN endpoints'[k] = {}

\* The reply of a request no version could be selected for.
C4_NotFoundReply ==
    /\ outcome'.ret.StatusCode = 404
    /\ outcome'.ret.ErrorCode = "REQUEST_NOT_FOUND"
    /\ OpsIn(outcome'.calls) \cap {"acquireContext", "DoFilter", "filter", "Transport"} = {}

\* A request is served from the versions its route holds, or not found.
C4_RequestStep ==
    RequestStep =>
        LET multi == endpoints[request'.key]
        IN  /\ httpHandlers[request'.key] > 0
            /\ DOMAIN multi = {} => C4_NotFoundReply
            /\ \/ C4_NotFoundReply
               \/ /\ outcome'.calls[1].op = "acquireContext"
                  /\ outcome'.endpoint \in Range(multi)

\* C4: a Removed event deletes only its version; the MVE and the handler stay,
\* later requests are served from the remaining versions, and a request to a
\* route with no version left is answered ErrRouteNotFound (404) with no
\* context acquired and no filter run.
C4_RemovedKeepsRoute == [][C4_RemovedStep /\ C4_RequestStep]_vars

\* A request reached the handler of a route whose only version was removed.
C4_Witness ==
    \E k \in DOMAIN endpoints :
        /\ DOMAIN endpoints[k] = {}
        /\ \E v \in EventVersions : history[k][v] = EventTypeRemoved
        /\ httpHandlers[k] = 1
        /\ request.key = k
        /\ outcome.ret = ErrRouteNotFound
        /\ outcome.calls = << >>

\* An event with a method outside the whitelist leaves the registry alone.
C5_DroppedStep ==
    \A ev \in EndpointEvents :
        (/\ nEvents' # nEvents
         /\ ToUpper(ev.Endpoint.HttpMethod) \notin MethodWhitelist
         /\ Handles(ev)) =>
            UNCHANGED <<endpoints, httpHandlers, manageHandlers>>

\* C5: an event whose upper-cased HttpMethod is outside the whitelist changes
\* neither the route table nor the handlers of either web server, whatever
\* its event type and Managed attribute.
C5_UnsupportedMethodDropped == [][C5_DroppedStep]_vars

\* CONNECT events were received and left no trace in the tables.
C5_Witness ==
    /\ history[<<"CONNECT", "/a">>]["v1"] # "None"
    /\ nEvents > 1
    /\ endpoints = << >>
    /\ \A k \in RouteKeys : httpHandlers[k] = 0 /\ manageHandlers[k] = 0

-----------------------------------------------------------------------------
(* Properties of Route (SpecRequest)                                       *)

\* The chain of the request: global filters, then the selected ones.
Chain(req) == req.globals \o selectFilters(req.selectors)

AllPass(req) == \A i \in 1..Len(Chain(req)) : req.kind[Chain(req)[i]] = "pass"

\* The arguments of the calls of calls whose op is in ops, in call order.
ArgsOf(calls, ops) ==
    LET Wanted(c) == c.op \in ops
        picked == SelectSeq(calls, Wanted)
    IN  [i \in 1..Len(picked) |-> picked[i].arg]

Reverse(s) == [i \in 1..Len(s) |-> s[Len(s) + 1 - i]]

\* C7: the chain is G ++ S; DoFilter is applied once per filter, and when
\* every filter calls next the filters run in the order g1..gn, s1..sm and
\* the terminal transport step runs after them.
C7_ChainOrder ==
    ~pending =>
        LET F == Chain(request)
        IN  /\ ArgsOf(outcome.calls, {"DoFilter"}) = Reverse(F)
            /\ AllPass(request) =>
                  /\ ArgsOf(outcome.calls, {"filter"}) = F
                  /\ IF request.ctxErr # ""
                     THEN outcome.ret.ErrorCode = "ROUTE:TRANSPORT/B:CANCELED"
                     ELSE IF request.endpoint.RpcProto \notin Transporters
                          THEN outcome.ret.ErrorCode = "REQUEST_NOT_FOUND"
                          ELSE /\ outcome.ret = NilError
                               /\ ArgsOf(outcome.calls, {"filter", "Transport"})
                                     = F \o <<request.endpoint.RpcProto>>

\* Filters [A, B, C] over the terminal ran as A(B(C(T))).
C7_Witness ==
    /\ ~pending
    /\ request.globals = <<"A">>
    /\ selectFilters(request.selectors) = <<"B", "C">>
    /\ ArgsOf(outcome.calls, {"filter", "Transport"}) = <<"A", "B", "C", "http">>

\* C8: when the first filter that does not call next is at position i, the
\* filters after i and the transporter are not invoked and Route returns the
\* ServeError of filter i.
C8_ShortCircuit ==
    ~pending =>
        LET F == Chain(request)
        IN  \A i \in 1..Len(F) :
               (request.kind[F[i]] = "short" /\ \A j \in 1..(i - 1) : request.kind[F[j]] = "pass")
               => /\ ArgsOf(outcome.calls, {"filter"}) = SubSeq(F, 1, i)
                  /\ OpsIn(outcome.calls) \cap {"Transport", "ObserveDuration"} = {}
                  /\ outcome.ret = FilterError(F[i])

\* The second of three filters returned its error: the third never ran.
C8_Witness ==
    /\ ~pending
    /\ Chain(request) = <<"A", "B", "C">>
    /\ request.kind = [f \in FilterIds |-> IF f = "B" THEN "short" ELSE "pass"]
    /\ request.ctxErr = "" /\ request.endpoint.RpcProto = "http"
    /\ ArgsOf(outcome.calls, {"filter"}) = <<"A", "B">>
    /\ outcome.ret = FilterError("B")

\* C9: with the request's context already done when the terminal step is
\* reached, Transport is not called, no transport duration is observed and
\* Route returns ROUTE:TRANSPORT/B:CANCELED with status 200 and the
\* context's error as cause.
C9_Canceled ==
    (~pending /\ request.ctxErr # "") =>
        /\ OpsIn(outcome.calls) \cap {"Transport", "ObserveDuration"} = {}
        /\ AllPass(request) =>
              /\ outcome.ret.ErrorCode = "ROUTE:TRANSPORT/B:CANCELED"
              /\ outcome.ret.StatusCode = 200
              /\ outcome.ret.CauseError = request.ctxErr

\* A cancelled request went through two filters to the terminal step.
C9_Witness ==
    /\ ~pending
    /\ request.ctxErr = "context canceled"
    /\ request.endpoint.RpcProto = "http"
    /\ ArgsOf(outcome.calls, {"filter"}) = <<"A", "B">>
    /\ outcome.ret.ErrorCode = "ROUTE:TRANSPORT/B:CANCELED"

\* C10: with no transporter registered for the endpoint's RpcProto and the
\* request not cancelled, the terminal step returns NotFound /
\* REQUEST_NOT_FOUND, calls no transporter and observes no transport duration.
C10_NoTransporter ==
    (/\ ~pending
     /\ request.ctxErr = ""
     /\ request.endpoint.RpcProto \notin Transporters
     /\ AllPass(request)) =>
        /\ outcome.ret.StatusCode = 404
        /\ outcome.ret.ErrorCode = "REQUEST_NOT_FOUND"
        /\ OpsIn(outcome.calls) \cap {"Transport", "ObserveDuration"} = {}

\* A request for a grpc endpoint reached the terminal step.
C10_Witness ==
    /\ ~pending
    /\ request.ctxErr = ""
    /\ request.endpoint.RpcProto = "grpc"
    /\ ArgsOf(outcome.calls, {"filter"}) = <<"A", "B">>
    /\ outcome.ret.ErrorCode = "REQUEST_NOT_FOUND"

-----------------------------------------------------------------------------
(* Properties of request handling under faults (Spec, SpecRequest, SpecFault) *)

\* The number of calls of calls whose op is op.
CountOf(calls, op) == Len(ArgsOf(calls, {op}))

\* The position of the first call of calls whose op is op; 0 when there is none.
IndexOf(calls, op) ==
    IF \E i \in 1..Len(calls) : calls[i].op = op
    THEN CHOOSE i \in 1..Len(calls) :
            calls[i].op = op /\ \A j \in 1..(i - 1) : calls[j].op # op
    ELSE 0

\* Calls made after the handler returned, by the web server's error handler.
ErrorHandlerOps == {"errorsWriter", "logError"}

\* C11: every request that reaches the handler of a registered route makes
\* exactly one increment of the endpoint access counter, labelled with the
\* served endpoint, on every path: success, short-circuit, cancellation,
\* missing transport, and a panic inside a filter or the transport.
C11_AccessOnce ==
    (~pending /\ request.hook = "ok") =>
        ArgsOf(outcome.calls, {"EndpointAccess"}) = <<request.endpoint.RpcProto>>

\* C12: with only version v1 registered for a route, a request to it with
\* X-Version v9 is answered 404 REQUEST_NOT_FOUND, and the access counter
\* and the error counter (code REQUEST_NOT_FOUND) are incremented.
C12_VersionMissStep ==
    (/\ RequestStep
     /\ request'.version = "v9"
     /\ DOMAIN endpoints[request'.key] = {"v1"}) =>
        /\ outcome'.ret.StatusCode = 404
        /\ outcome'.ret.ErrorCode = "REQUEST_NOT_FOUND"
        /\ CountOf(outcome'.calls, "EndpointAccess") = 1
        /\ ArgsOf(outcome'.calls, {"EndpointError"}) = <<"REQUEST_NOT_FOUND">>

\* C12: the version miss of C12_VersionMissStep, on every step of the engine.
C12_VersionMiss == [][C12_VersionMissStep]_vars

\* C13: every acquireContext of HandleEndpointRequest is followed by exactly
\* one releaseContext before the handler returns, on every path: response
\* written, Route error, writer error, and a panic in a hook, a filter, the
\* transporter or the writer; everything the handler does with the context
\* lies between the two.
C13_ReleaseOnce ==
    ~pending =>
        LET calls == outcome.calls
            a == IndexOf(calls, "acquireContext")
            r == IndexOf(calls, "releaseContext")
        IN  /\ CountOf(calls, "acquireContext") = 1
            /\ CountOf(calls, "releaseContext") = 1
            /\ a = 1 /\ a < r
            /\ \A i \in 1..Len(calls) :
                  IF calls[i].op \in ErrorHandlerOps \cup {"recover"}
                  THEN i > r
                  ELSE i <= r

\* The transporter panicked behind three filters and the context was released.
C13_Witness ==
    /\ ~pending
    /\ request.reply = "panic"
    /\ ArgsOf(outcome.calls, {"filter", "Transport"}) = <<"A", "B", "C", "http">>
    /\ CountOf(outcome.calls, "releaseContext") = 1
    /\ CountOf(outcome.calls, "recover") = 1

\* C14: a panic inside HandleEndpointRequest is recovered at the request
\* boundary and the handler returns an internal-error ServeError
\* (GATEWAY_INTERNAL, 500) to its caller.
C14_PanicReturnsError ==
    (~pending /\ CountOf(outcome.calls, "recover") > 0) =>
        /\ outcome.ret.StatusCode = 500
        /\ outcome.ret.ErrorCode = "GATEWAY_INTERNAL"

\* C15: when the transporter reports an error by setting the response's
\* status, the terminal step returns a ServeError: Route returns it, the error
\* counter is incremented and the response writer is not called.
C15_TransportError ==
    (/\ ~pending
     /\ request.reply = "error"
     /\ CountOf(outcome.calls, "Transport") = 1) =>
        /\ outcome.ret # NilError
        /\ CountOf(outcome.calls, "EndpointError") = 1
        /\ CountOf(outcome.calls, "responseWriter") = 0

\* C16: when Route returns a ServeError, the response writer is not invoked,
\* the error is rendered once by the errors writer with the error's header
\* additions merged with the response's header values, and an error of the
\* errors writer is logged and followed by no other write.
C16_ErrorRendered ==
    (~pending /\ outcome.ret \notin {NilError, WriterError}) =>
        LET calls == outcome.calls
            w == IndexOf(calls, "errorsWriter")
            errHeader == IF outcome.ret.ErrorCode = "PERMISSION_DENIED"
                         THEN request.errHeader ELSE {}
        IN  /\ CountOf(calls, "MergeHeader") = 1
            /\ CountOf(calls, "responseWriter") = 0
            /\ ArgsOf(calls, {"errorsWriter"}) = <<outcome.ret.ErrorCode>>
            /\ outcome.header = errHeader \cup request.respHeader
            /\ IndexOf(calls, "MergeHeader") < w
            /\ IndexOf(calls, "releaseContext") < w
            /\ IF request.errWriter = "error"
               THEN w = Len(calls) - 1 /\ calls[Len(calls)].op = "logError"
               ELSE w = Len(calls)

\* A filter's error with a header of its own met a response carrying a header,
\* and the errors writer failed to write them.
C16_Witness ==
    /\ ~pending
    /\ request.kind["B"] = "short" /\ request.kind["A"] = "pass"
    /\ request.hook = "ok"
    /\ request.errWriter = "error"
    /\ outcome.ret = FilterError("B")
    /\ outcome.header = {"WWW-Authenticate", "X-Trace"}
    /\ CountOf(outcome.calls, "logError") = 1

\* The error code of the ServeError the chain of a request returns: "" when
\* it returns nil or does not return (a hook panicked before Route, a filter
\* or the transporter panicked).
ChainErrorCode(req) ==
    LET chain == Chain(req)
        stops == {i \in 1..Len(chain) : req.kind[chain[i]] # "pass"}
        first == CHOOSE i \in stops : \A j \in stops : i <= j
    IN  IF req.hook = "panic" THEN ""
        ELSE IF stops # {}
        THEN (IF req.kind[chain[first]] = "short" THEN "PERMISSION_DENIED" ELSE "")
        ELSE IF req.ctxErr # "" THEN ErrorCodeCanceled
        ELSE IF req.endpoint.RpcProto \notin Transporters THEN ErrorCodeRequestNotFound
        ELSE ""

\* The increments of the error counter among calls.
ErrorCounts(calls) == SelectSeq(calls, LAMBDA c : c.op = "EndpointError")

\* C27: the error counter is incremented exactly once, with the labels of the
\* endpoint's service and the error code of the ServeError, when the chain
\* (filters and terminal transport step) returns a ServeError, and is not
\* incremented when the chain returns nil.
C27_ErrorCounter ==
    ~pending =>
        ErrorCounts(outcome.calls) =
            IF ChainErrorCode(request) = "" THEN << >>
            ELSE <<[op |-> "EndpointError", arg |-> ChainErrorCode(request),
                    labels |-> <<request.endpoint.RpcProto>>]>>

\* The terminal step returned CANCELED after every filter passed, and the
\* error was counted.
C27_Witness ==
    /\ ~pending
    /\ AllPass(request)
    /\ ChainErrorCode(request) = ErrorCodeCanceled
    /\ Len(ErrorCounts(outcome.calls)) = 1
    /\ CountOf(outcome.calls, "filter") = 3

\* C30: every request handled by HandleEndpointRequest is rendered exactly
\* once: by the response writer or by the errors writer, never by both and
\* never by neither, also when the response writer returns an error and when
\* a panic is recovered.
C30_OneRendering ==
    ~pending =>
        CountOf(outcome.calls, "responseWriter") + CountOf(outcome.calls, "errorsWriter") = 1

-----------------------------------------------------------------------------
(* Properties of the service directory, Shutdown and the event loops       *)

\* C17: when a Removed service event has been handled, no entry of the
\* directory, under a ServiceId or under an AliasId, still holds a service with
\* the removed ServiceId.
C17_RemovedStep ==
    \A ev \in ServiceEvents :
        (ev.EventType = EventTypeRemoved /\ HandleBackendServiceEvent(ev)) =>
            \A id \in DOMAIN services' : services'[id].ServiceId # ev.Service.ServiceId

\* C17: the removal of C17_RemovedStep, on every step of the service loop.
C17_RemovalRemovesAliases == [][C17_RemovedStep]_vars

\* The position of the Shutdown call of hook id in calls; 0 when it was not run.
HookIndex(calls, id) ==
    IF \E i \in 1..Len(calls) : calls[i] = Call("hook.Shutdown", id)
    THEN CHOOSE i \in 1..Len(calls) : calls[i] = Call("hook.Shutdown", id)
    ELSE 0

\* Whether the hook registered at position i runs before the one at position j.
RunsBefore(list, i, j) ==
    \/ list[i].order < list[j].order
    \/ list[i].order = list[j].order /\ i < j

\* C18: Shutdown shuts down the admin server, then the public server, then
\* runs the shutdown hooks in the order of their hints (up to the first that
\* fails), and closes the stopped channel last, on every return path; the
\* channel is not closed before Shutdown has done these steps.
C18_ShutdownOrder ==
    LET calls == shutdown.calls
        list == hooks.list
        n == Len(calls)
    IN  /\ shutdown.stopped <=> shutdown.returned
        /\ shutdown.returned =>
              /\ calls[1].op = "manageWebServer.Shutdown"
              /\ calls[2].op = "httpWebServer.Shutdown"
              /\ calls[n] = Call("close", "stopped")
              /\ CountOf(calls, "close") = 1
              /\ CountOf(calls, "manageWebServer.Shutdown") = 1
              /\ CountOf(calls, "httpWebServer.Shutdown") = 1
              /\ \A i \in 1..Len(list) :
                    LET at == HookIndex(calls, list[i].id)
                    IN  /\ at # 0 => 2 < at /\ at < n
                        /\ at # 0 <=> \A j \in 1..Len(list) :
                                         RunsBefore(list, j, i) => ~list[j].fails
                        /\ \A j \in 1..Len(list) :
                              (at # 0 /\ RunsBefore(list, j, i)) =>
                                  /\ HookIndex(calls, list[j].id) # 0
                                  /\ HookIndex(calls, list[j].id) < at
              /\ CountOf(calls, "hook.Shutdown")
                    = Cardinality({i \in 1..Len(list) : HookIndex(calls, list[i].id) # 0})
              /\ shutdown.ret # "" <=> \E i \in 1..Len(list) : list[i].fails

\* Two hooks registered against the order of their hints ran in hint order
\* after both web servers, and the stopped channel was closed after them.
C18_Witness ==
    /\ shutdown.returned
    /\ Len(hooks.list) = 2
    /\ hooks.list[1].order = 2 /\ hooks.list[2].order = 1
    /\ hooks.httpErr
    /\ ArgsOf(shutdown.calls, {"hook.Shutdown"}) = <<hooks.list[2].id, hooks.list[1].id>>
    /\ shutdown.calls[Len(shutdown.calls)] = Call("close", "stopped")

\* Every event sent to a loop is handled in arrival order, and a loop has
\* stopped only when its channel is closed and drained.
C19_LoopInv ==
    \A l \in Loops :
        /\ channels.applied[l] \o channels.queue[l] = channels.delivered[l]
        /\ loops[l] = "stopped" =>
              channels.closed[l] /\ channels.applied[l] = channels.delivered[l]

\* Shutdown leaves the channels and the loops as they are.
C19_ShutdownStep ==
    shutdown' # shutdown => UNCHANGED <<channels, loops, endpoints, services>>

\* C19: each event loop handles the events of its channel in arrival order
\* and stops when, and only when, the producer has closed the channel;
\* Shutdown neither closes the channels nor stops the loops, so that events
\* sent after Shutdown are handled too.
C19_LoopsOutliveShutdown ==
    /\ []C19_LoopInv
    /\ [][C19_ShutdownStep]_vars
    /\ \A l \in Loops :
          (channels.closed[l] \/ channels.queue[l] # << >>) ~>
              /\ channels.applied[l] = channels.delivered[l]
              /\ channels.closed[l] => loops[l] = "stopped"

\* An endpoint sent after Shutdown returned is in the route table, and the
\* service sent after it is in the directory, with both loops running.
C19_Witness ==
    /\ shutdown.returned
    /\ \A l \in Loops :
          /\ loops[l] = "running"
          /\ Len(channels.applied[l]) = 1
          /\ channels.applied[l][1].late
          /\ channels.applied[l][1].event.EventType = EventTypeAdded
    /\ DOMAIN endpoints[<<"GET", "/a">>] = {"v1"}
    /\ DOMAIN services = {"s1", "a1"}

\* C20: a request handler that looks up version v1 while the event loop
\* updates it finds, and serves, one of the endpoints the events carried,
\* whole and never a miss, and the MVE holds one entry, for v1.
C20_NoTornUpdate ==
    /\ \A h \in Handlers :
          /\ inflight[h].state # "miss"
          /\ inflight[h].state \in {"found", "served"} =>
                inflight[h].endpoint \in ConcurrentEndpoints
    /\ \A k \in DOMAIN endpoints :
          /\ DOMAIN endpoints[k] = {"v1"}
          /\ endpoints[k]["v1"] \in ConcurrentEndpoints

\* One handler serves the endpoint it found before an update, the other the
\* endpoint stored by the update.
C20_Witness ==
    /\ inflight[1].state = "served" /\ inflight[1].endpoint.Service = "s1"
    /\ inflight[2].state = "served" /\ inflight[2].endpoint.Service = "s2"
    /\ history[<<"GET", "/a">>]["v1"] = EventTypeUpdated
    /\ endpoints[<<"GET", "/a">>]["v1"].Service = "s2"

\* C28: Shutdown runs every enrolled shutdown hook exactly once, in the
\* order of the hints, also when the public web server's shutdown or an
\* earlier hook returned an error.
C28_HooksDrained ==
    LET calls == shutdown.calls
        list == hooks.list
    IN  shutdown.returned =>
          /\ \A i \in 1..Len(list) :
                Len(SelectSeq(calls, LAMBDA c : c = Call("hook.Shutdown", list[i].id))) = 1
          /\ \A i, j \in 1..Len(list) :
                RunsBefore(list, i, j) =>
                    HookIndex(calls, list[i].id) < HookIndex(calls, list[j].id)

-----------------------------------------------------------------------------
(* Properties of version selection, the lifecycle and filter initialization *)

\* The references Dispatcher.Init called Init on.
Initialized(d) == {d.inits[i].ref : i \in 1..Len(d.inits)}

\* The static filters of a configuration that are not disabled.
EnabledStatic(cfg) == {f \in Range(cfg.globals) \cup Range(cfg.selectives) : f \notin cfg.disabled}

\* C21: no handler runs Route before Dispatcher.Init has returned without
\* error: while a web server listens, Initial has returned nil and every
\* static filter that is not disabled and every dynamic filter made has been
\* initialized; this includes the handler of an echo endpoint, which is
\* registered during Initial before the dispatcher is initialized.
C21_InitBeforeServe ==
    /\ \A i \in 1..Len(boot.routed) : boot.routed[i]
    /\ boot.startTLS # << >> =>
          /\ boot.phase = "serving"
          /\ boot.dispatcher.err = ""
          /\ EnabledStatic(boot.config) \subseteq Initialized(boot.dispatcher)
          /\ \A i \in 1..Len(boot.dispatcher.instances) :
                boot.dispatcher.instances[i].id \in Initialized(boot.dispatcher)
    /\ (boot.phase \in {"new", "initial"} /\ httpHandlers[<<"GET", "/a">>] > 0) =>
          ~Listening(boot, "http")

\* An echo endpoint registered during Initial has served a request through a
\* chain of initialized filters, one of them made by a factory.
C21_Witness ==
    /\ boot.config.echo
    /\ boot.routed = <<TRUE>>
    /\ boot.dispatcher.instances # << >>
    /\ CountOf(outcome.calls, "DoFilter") = 3

\* C22: a static filter whose configuration has disabled=true is not
\* initialized, is not enrolled in the hook lists, and its DoFilter is in the
\* chain of no request.
C22_DisabledSkipped ==
    \A f \in boot.config.disabled :
        /\ f \notin Initialized(boot.dispatcher)
        /\ f \notin Range(boot.dispatcher.hookFuncs)
        /\ \A i \in 1..Len(outcome.calls) :
              outcome.calls[i].op \in {"DoFilter", "filter"} => outcome.calls[i].arg # f

\* The entries of a dynfilter block that have an id and are not disabled.
Wanted(entries) == SelectSeq(entries, LAMBDA c : c.id # "" /\ ~c.disabled)

IsPrefix(s, t) == Len(s) <= Len(t) /\ s = SubSeq(t, 1, Len(s))

\* The Init calls made on filters that factories made.
DynInits(d) == SelectSeq(d.inits, LAMBDA x : x.ref \in DynIds)

C26_VersionSelection ==
    LET mve == endpoints[request.key]
        v == request.version
        smallest == {w \in DOMAIN mve : \A u \in DOMAIN mve : VersionRank(w) <= VersionRank(u)}
    IN  ~pending =>
          /\ (v # "" /\ v \in DOMAIN mve) => outcome.endpoint = mve[v]
          /\ (~(v # "" /\ v \in DOMAIN mve) /\ "" \in DOMAIN mve) =>
                outcome.endpoint = mve[""]
          /\ (v \notin DOMAIN mve /\ "" \notin DOMAIN mve /\ DOMAIN mve # {}) =>
                \E w \in smallest : outcome.endpoint = mve[w]
          /\ DOMAIN mve # {} =>
                /\ CountOf(outcome.calls, "acquireContext") = 1
                /\ ArgsOf(outcome.calls, {"acquireContext"}) = <<outcome.endpoint.Version>>
          /\ DOMAIN mve = {} <=> (outcome.ret = ErrRouteNotFound /\ outcome.calls = << >>)

\* A request for a version never stored was served the smaller of the two
\* stored versions, neither of them empty.
C26_Witness ==
    /\ ~pending
    /\ request.version = "v9"
    /\ DOMAIN endpoints[request.key] = {"v1", "v2"}
    /\ outcome.endpoint = endpoints[request.key]["v1"]
    /\ CountOf(outcome.calls, "Transport") = 1

\* The StartTLS calls made on server.
StartsOf(b, server) == SelectSeq(b.startTLS, LAMBDA c : c.server = server)

\* C25: the public web server is started on the configured address and port
\* (default 0.0.0.0:8080), the admin web server on manage-address and
\* manage-port, and the two are started on the same port only when the
\* configuration gives port and manage-port the same value.
C25_BindPorts ==
    LET cfg == boot.config IN
    boot.phase = "serving" =>
        /\ StartsOf(boot, "http") =
              <<startServer("http", GetString(cfg, "address"), GetInt(cfg, "port"))>>
        /\ StartsOf(boot, "manage") =
              <<startServer("manage", GetString(cfg, "manageAddress"),
                            GetInt(cfg, "managePort"))>>
        /\ StartsOf(boot, "http")[1].port = StartsOf(boot, "manage")[1].port =>
              GetInt(cfg, "port") = GetInt(cfg, "managePort")

-----------------------------------------------------------------------------
(* Properties of the permission filter (SpecPermission, SpecPermissionConcurrent) *)

\* C24: when VerifyFunc returns no error and a report with success=false,
\* whatever the report's other fields, the filter returns status 403 with
\* error code PERMISSION_DENIED and does not invoke next.
C24_Denied ==
    (/\ perm.pc = "done"
     /\ CountOf(perm.calls, "VerifyFunc") = 1
     /\ perm.input.verify.err = ""
     /\ ~perm.input.verify.report.Success)
    => /\ perm.ret.StatusCode = StatusForbidden
       /\ perm.ret.ErrorCode = ErrorCodePermissionDenied
       /\ CountOf(perm.calls, "next") = 0

\* A turn of the filter's loop that finds its permission id absent from the
\* directory ends the invocation with GATEWAY_INTERNAL and status 500, with
\* neither VerifyFunc nor next invoked.
C29_LookupStep ==
    (/\ perm.pc = "lookup"
     /\ perm.i <= Len(perm.input.permissions)
     /\ perm' # perm
     /\ ~ServiceByID(services, perm.input.permissions[perm.i]))
    => /\ perm'.pc = "done"
       /\ perm'.ret.ErrorCode = ErrorCodeGatewayInternal
       /\ perm'.ret.StatusCode = StatusServerError
       /\ CountOf(perm'.calls, "VerifyFunc") = 0
       /\ CountOf(perm'.calls, "next") = 0

\* A disabled filter and a filter whose SkipFunc returns true invoke next
\* once and never VerifyFunc; VerifyFunc is invoked only with every
\* permission id found.
C29_Inv ==
    /\ (perm.pc = "done" /\ (perm.input.disabled \/ perm.input.skip)) =>
          /\ CountOf(perm.calls, "next") = 1
          /\ CountOf(perm.calls, "VerifyFunc") = 0
          /\ CountOf(perm.calls, "ServiceByID") = 0
    /\ CountOf(perm.calls, "VerifyFunc") > 0 =>
          Len(perm.found) = Len(perm.input.permissions)
    /\ CountOf(perm.calls, "next") <= 1

\* C29: a permission service id absent from the directory when the filter
\* looks it up, also when a service event removed it while the request was
\* running, makes the filter return GATEWAY_INTERNAL / 500 without invoking
\* VerifyFunc or next; a disabled or skipping filter invokes next exactly once
\* and not VerifyFunc.
C29_MissingService == []C29_Inv /\ [][C29_LookupStep]_vars

\* The filter found s1, a Removed event then deleted s1 and its alias, and
\* the lookup of the alias ended the invocation.
C29_Witness ==
    /\ perm.pc = "done"
    /\ perm.input.permissions = <<"s1", "a1">>
    /\ Len(perm.found) = 1
    /\ services = << >>
    /\ perm.ret.ErrorCode = ErrorCodeGatewayInternal
    /\ perm.calls[Len(perm.calls)] = Call("ServiceByID", "a1")

-----------------------------------------------------------------------------
(* Properties of chain composition (SpecCompose)                           *)

-----------------------------------------------------------------------------
(* Properties of the started signal (SpecBoot)                             *)

\* StartServe returned an error.
StartFailed == boot.phase = "stopped"

\* C32: the started channel is closed at most once, and only after the
\* startup hooks and both watches succeeded and both event loops were
\* launched; when a startup hook or a watch fails, StartServe returns the
\* error, started stays open, no web server is started and no event loop
\* is left running.
C32_StartedSignal ==
    /\ boot.started <= 1
    /\ boot.started = 1 =>
          /\ ~boot.config.startupErr
          /\ boot.config.watchErr = ""
          /\ \A l \in Loops : loops[l] = "running"
    /\ boot.phase \in {"initialized", "stopped", "serving"} =>
          (StartFailed <=> (boot.phase # "initialized"
                            /\ (boot.config.startupErr \/ boot.config.watchErr # "")))
    /\ StartFailed =>
          /\ boot.ret # ""
          /\ boot.started = 0
          /\ boot.startTLS = << >>
          /\ \A l \in Loops : loops[l] # "running"

=============================================================================
